---- MODULE Spec2Model ----
(***************************************************************************)
(* Model of the chunked flat-file query engine of ma-screener:             *)
(*   src/src/services/json-database.service.ts  (the TypeScript engine)    *)
(*   src/JSONDatabaseService.js                 (the JavaScript engine     *)
(*                                               loaded by the main        *)
(*                                               process)                  *)
(*   src/unnamed/part_005                       (a second JavaScript copy) *)
(*   src/unnamed/part_001                       (the Electron main         *)
(*                                               processes)                *)
(*                                                                         *)
(* JavaScript values are tagged records so that typeof, ===, truthiness    *)
(* and the relational operators can be computed as the language computes   *)
(* them.  Strings are sequences of one-character strings.                  *)
(***************************************************************************)
EXTENDS Integers, Sequences, FiniteSets, TLC

VARIABLES metadata, files, call, res, pc, main

vars == <<metadata, files, call, res, pc, main>>

-----------------------------------------------------------------------------
(* Bounds of the model *)

MaxChunks == 2
MaxChunkLen == 2
MaxTotalRows == 2
MaxOffset == 1
MaxLimit == 2

(* `limit = Infinity`: larger than every length the model can build *)
Infinity == 1000000

-----------------------------------------------------------------------------
(* JavaScript values *)

Num(n) == [t |-> "number", n |-> n]
Str(s) == [t |-> "string", s |-> s]
Null == [t |-> "null"]
Undefined == [t |-> "undefined"]
Arr(a) == [t |-> "array", a |-> a]
Obj(e) == [t |-> "object", e |-> e]
NaN == [t |-> "number", nan |-> TRUE]

TypeOf(v) == IF v.t \in {"null", "array"} THEN "object" ELSE v.t

IsNaN(v) == v.t = "number" /\ "nan" \in DOMAIN v

(* item[field]: a missing property reads as undefined *)
Get(item, field) == IF field \in DOMAIN item THEN item[field] ELSE Undefined

(* ToBoolean *)
Truthy(v) ==
  CASE v.t = "number" -> (~IsNaN(v)) /\ v.n # 0
    [] v.t = "string" -> Len(v.s) > 0
    [] v.t \in {"null", "undefined"} -> FALSE
    [] OTHER -> TRUE

(* a || b *)
JsOr(a, b) == IF Truthy(a) THEN a ELSE b

(* a === b on primitives *)
StrictEq(a, b) == (~IsNaN(a)) /\ (~IsNaN(b)) /\ a = b

(* UTF-16 code unit of the characters the model uses *)
CharCode(c) ==
  CASE c = "1" -> 49 [] c = "2" -> 50 [] c = "3" -> 51
    [] c = "A" -> 65 [] c = "B" -> 66 [] c = "C" -> 67 [] c = "P" -> 80
    [] c = "a" -> 97 [] c = "b" -> 98
    [] OTHER -> 110

(* String.prototype.toLowerCase, one character *)
LowerChar(c) ==
  CASE c = "A" -> "a" [] c = "B" -> "b" [] c = "C" -> "c" [] c = "P" -> "p"
    [] OTHER -> c

ToLowerCase(s) == [i \in 1..Len(s) |-> LowerChar(s[i])]

(* String.prototype.includes *)
Includes(hay, needle) ==
  \E i \in 0..(Len(hay) - Len(needle)) :
     \A j \in 1..Len(needle) : hay[i + j] = needle[j]

(* Number::toString of the small non-negative integers of the model *)
DigitChar(d) ==
  CASE d = 0 -> "0" [] d = 1 -> "1" [] d = 2 -> "2" [] d = 3 -> "3"
    [] d = 4 -> "4" [] d = 5 -> "5" [] d = 6 -> "6" [] d = 7 -> "7"
    [] d = 8 -> "8" [] OTHER -> "9"

RECURSIVE NatToString(_)
NatToString(n) ==
  IF n < 10 THEN <<DigitChar(n)>>
  ELSE Append(NatToString(n \div 10), DigitChar(n % 10))

(* String(val) *)
ToStringJs(v) ==
  CASE v.t = "string" -> v.s
    [] v.t = "number" -> IF IsNaN(v) THEN <<"N", "a", "N">> ELSE NatToString(v.n)
    [] v.t = "null" -> <<"n", "u", "l", "l">>
    [] v.t = "undefined" -> <<"u", "n", "d", "e", "f", "i", "n", "e", "d">>
    [] OTHER -> <<>>

IsDigit(c) == c \in {"0", "1", "2", "3", "4", "5", "6", "7", "8", "9"}

DigitVal(c) == CharCode(c) - 48

RECURSIVE DigitsToNat(_)
DigitsToNat(s) ==
  IF Len(s) = 0 THEN 0
  ELSE 10 * DigitsToNat(SubSeq(s, 1, Len(s) - 1)) + DigitVal(s[Len(s)])

(* ToNumber on primitives *)
ToNumber(v) ==
  CASE v.t = "number" -> v
    [] v.t = "null" -> Num(0)
    [] v.t = "undefined" -> NaN
    [] v.t = "string" ->
         IF \A i \in 1..Len(v.s) : IsDigit(v.s[i]) THEN Num(DigitsToNat(v.s)) ELSE NaN
    [] OTHER -> NaN

(* lexicographic order of code units: a < b on two strings *)
RECURSIVE StrLess(_, _)
StrLess(a, b) ==
  IF Len(b) = 0 THEN FALSE
  ELSE IF Len(a) = 0 THEN TRUE
  ELSE IF CharCode(a[1]) # CharCode(b[1]) THEN CharCode(a[1]) < CharCode(b[1])
  ELSE StrLess(Tail(a), Tail(b))

(* a < b (abstract relational comparison) on primitives *)
JsLess(a, b) ==
  IF a.t = "string" /\ b.t = "string" THEN StrLess(a.s, b.s)
  ELSE LET x == ToNumber(a)
           y == ToNumber(b)
       IN  (~IsNaN(x)) /\ (~IsNaN(y)) /\ x.n < y.n

JsGreater(a, b) == JsLess(b, a)

(* a <= b is !(b < a) unless an operand is NaN *)
JsLessEq(a, b) ==
  IF a.t = "string" /\ b.t = "string" THEN ~StrLess(b.s, a.s)
  ELSE LET x == ToNumber(a)
           y == ToNumber(b)
       IN  (~IsNaN(x)) /\ (~IsNaN(y)) /\ x.n <= y.n

JsGreaterEq(a, b) == JsLessEq(b, a)

-----------------------------------------------------------------------------
(* Predicate Evaluator: filterData                                          *)
(* A filter is the sequence Object.entries(filter) of <<field, value>>; a   *)
(* value is a primitive, Arr(<<v1, ...>>) or Obj(<<<<op, val>>, ...>>).     *)
(* Evaluation yields "true", "false" or "TypeError" (the callback raised).  *)

Bool(b) == IF b THEN "true" ELSE "false"

(* Array.prototype.includes (SameValueZero) *)
ArrayIncludes(a, v) == \E i \in 1..Len(a) : a[i] = v

(* EvalOpTS without the typeof guards of the ordering operators *)
EvalOpTS_NoTypeGuard(item, field, op, val) ==
  CASE op = "eq" -> Bool(StrictEq(Get(item, field), val))
    [] op = "ne" -> Bool(~StrictEq(Get(item, field), val))
    [] op = "gt" -> Bool(JsGreater(Get(item, field), val))
    [] op = "gte" -> Bool(JsGreaterEq(Get(item, field), val))
    [] op = "lt" -> Bool(JsLess(Get(item, field), val))
    [] op = "lte" -> Bool(JsLessEq(Get(item, field), val))
    [] op = "like" ->
         Bool(TypeOf(Get(item, field)) = "string"
              /\ Includes(ToLowerCase(Get(item, field).s), ToLowerCase(ToStringJs(val))))
    [] OTHER -> "true"

(* one operator of a complex clause, json-database.service.ts:299-310 *)
EvalOpTS(item, field, op, val) ==
  LET x == Get(item, field)
      bothNumbers == TypeOf(x) = "number" /\ TypeOf(val) = "number"
  IN  CASE op = "eq" -> Bool(StrictEq(x, val))
        [] op = "ne" -> Bool(~StrictEq(x, val))
        [] op = "gt" -> Bool(bothNumbers /\ JsGreater(x, val))
        [] op = "gte" -> Bool(bothNumbers /\ JsGreaterEq(x, val))
        [] op = "lt" -> Bool(bothNumbers /\ JsLess(x, val))
        [] op = "lte" -> Bool(bothNumbers /\ JsLessEq(x, val))
        [] op = "like" ->
             Bool(TypeOf(x) = "string"
                  /\ Includes(ToLowerCase(x.s), ToLowerCase(ToStringJs(val))))
        [] OTHER -> "true"

(* one operator of a complex clause, JSONDatabaseService.js:251-262 *)
EvalOpJS(item, field, op, val) ==
  LET x == Get(item, field)
  IN  CASE op = "eq" -> Bool(StrictEq(x, val))
        [] op = "ne" -> Bool(~StrictEq(x, val))
        [] op = "gt" -> Bool(JsGreater(x, val))
        [] op = "gte" -> Bool(JsGreaterEq(x, val))
        [] op = "lt" -> Bool(JsLess(x, val))
        [] op = "lte" -> Bool(JsLessEq(x, val))
        [] op = "like" ->
             IF TypeOf(x) # "string" THEN "false"
             ELSE IF val.t # "string" THEN "TypeError"
             ELSE Bool(Includes(ToLowerCase(x.s), ToLowerCase(val.s)))
        [] OTHER -> "true"

EvalOp(variant, item, field, op, val) ==
  IF variant = "ts" THEN EvalOpTS(item, field, op, val)
  ELSE EvalOpJS(item, field, op, val)

(* Object.entries(value).every(...): stops at the first false or raise *)
RECURSIVE EveryOp(_, _, _, _)
EveryOpRest(r, variant, item, field, ops) ==
  IF r = "true" THEN EveryOp(variant, item, field, Tail(ops)) ELSE r

EveryOp(variant, item, field, ops) ==
  IF Len(ops) = 0 THEN "true"
  ELSE EveryOpRest(EvalOp(variant, item, field, ops[1][1], ops[1][2]),
                   variant, item, field, ops)

(* the IN operator: the TypeScript engine lets an empty array match *)
MembershipTS(item, field, value) ==
  Len(value.a) = 0 \/ ArrayIncludes(value.a, Get(item, field))

MembershipJS(item, field, value) == ArrayIncludes(value.a, Get(item, field))

(* one field clause *)
Clause(variant, item, field, value) ==
  IF value.t = "array"
  THEN Bool(IF variant = "ts" THEN MembershipTS(item, field, value)
            ELSE MembershipJS(item, field, value))
  ELSE IF value.t = "object" THEN EveryOp(variant, item, field, value.e)
  ELSE Bool(StrictEq(Get(item, field), value))

(* Object.entries(filter).every(...) for one item *)
RECURSIVE Matches(_, _, _)
MatchesRest(r, variant, item, filter) ==
  IF r = "true" THEN Matches(variant, item, Tail(filter)) ELSE r

Matches(variant, item, filter) ==
  IF Len(filter) = 0 THEN "true"
  ELSE MatchesRest(Clause(variant, item, filter[1][1], filter[1][2]),
                   variant, item, filter)

Ok(v) == [status |-> "ok", value |-> v]
Raise(e) == [status |-> e]

(* data.filter(callback) given the callback's outcome m[i] on each item *)
FilterBy(items, m) ==
  IF \E i \in 1..Len(items) : m[i] = "TypeError" THEN Raise("TypeError")
  ELSE Ok(Arr([k \in 1..Cardinality({i \in 1..Len(items) : m[i] = "true"}) |->
                items[CHOOSE i \in 1..Len(items) :
                        /\ m[i] = "true"
                        /\ Cardinality({j \in 1..i : m[j] = "true"}) = k]]))

(* filterData(data, filter).  data is the value JSON.parse produced: with  *)
(* an empty filter it is returned as it is, otherwise data.filter must     *)
(* exist and the callback raises at the first item on which a clause does. *)
filterData(variant, data, filter) ==
  IF Len(filter) = 0 THEN Ok(data)
  ELSE IF data.t # "array" THEN Raise("TypeError")
  ELSE FilterBy(data.a, [i \in 1..Len(data.a) |-> Matches(variant, data.a[i], filter)])

-----------------------------------------------------------------------------
(* Chunk Store                                                              *)
(* files maps a path [dir, idx] to the file stored there: dir "" is the    *)
(* data directory itself (`M&A Database_chunk_<idx>.json`), any other dir   *)
(* is the table directory (`<table>/chunk_<idx>.json`).  A file either      *)
(* fails to parse or holds the value JSON.parse returns.  The operations    *)
(* that read chunk files take the directory content fs they read.          *)

Path(dir, idx) == [dir |-> dir, idx |-> idx]
Corrupt == [k |-> "corrupt"]
Json(v) == [k |-> "json", v |-> v]

(* property names every object literal inherits from Object.prototype *)
ObjectPrototypeKeys == {"constructor", "toString", "__proto__"}

(* this.metadata[tableName] || null, with this.metadata = {} *)
getTableMetadata(tableName) ==
  IF tableName \in DOMAIN metadata THEN metadata[tableName]
  ELSE IF tableName \in ObjectPrototypeKeys THEN [inherited |-> tableName]
  ELSE Null

IsNull(v) == v = Null

(* tableMetadata.chunksCount as a loop bound: `i < undefined` is false *)
ChunksCountOf(md) == IF "chunksCount" \in DOMAIN md THEN md.chunksCount ELSE 0

(* tableMetadata.totalRows, undefined on an inherited property value *)
TotalRowsOf(md) == IF "totalRows" \in DOMAIN md THEN Num(md.totalRows) ELSE Undefined

(* fs.existsSync + JSON.parse(fs.readFileSync) inside try/catch *)
ParseFile(fs, path) == IF fs[path] = Corrupt THEN Null ELSE fs[path].v

readChunk(fs, tableName, chunkIndex) ==
  IF tableName = "deals" /\ Path("", chunkIndex) \in DOMAIN fs
  THEN ParseFile(fs, Path("", chunkIndex))
  ELSE IF Path(tableName, chunkIndex) \in DOMAIN fs
  THEN ParseFile(fs, Path(tableName, chunkIndex))
  ELSE Null

(* allData.push(...chunkData) needs an iterable *)
RECURSIVE GetAllFrom(_, _, _, _, _)
GetAllFrom(fs, tableName, i, n, allData) ==
  IF i >= n THEN Ok(allData)
  ELSE IF ~Truthy(readChunk(fs, tableName, i))
  THEN GetAllFrom(fs, tableName, i + 1, n, allData)
  ELSE IF readChunk(fs, tableName, i).t # "array" THEN Raise("TypeError")
  ELSE GetAllFrom(fs, tableName, i + 1, n, allData \o readChunk(fs, tableName, i).a)

getAllData(fs, tableName) ==
  IF IsNull(getTableMetadata(tableName)) THEN Raise("NotFound")
  ELSE GetAllFrom(fs, tableName, 0, ChunksCountOf(getTableMetadata(tableName)), <<>>)

-----------------------------------------------------------------------------
(* Query Engine *)

Min(a, b) == IF a < b THEN a ELSE b
Max(a, b) == IF a > b THEN a ELSE b

(* Array.prototype.slice(start) and slice(0, n) *)
SliceFrom(s, start) == SubSeq(s, start + 1, Len(s))
SliceTo(s, n) == SubSeq(s, 1, Min(n, Len(s)))

(* the [offset, offset+limit) slice of a sequence: slice(offset, offset+limit) *)
Slice(s, offset, limit) == SliceTo(SliceFrom(s, Min(offset, Len(s))), limit)

(* ScanStep with the whole remainder of the chunk pushed: no cut at limit  *)
ScanStep_NoLimitCut(variant, f, limit, offset, results, skipped) ==
  IF f.status # "ok" THEN Raise("TypeError")
  ELSE IF f.value.t # "array" THEN Raise("TypeError")
  ELSE IF skipped + Len(f.value.a) <= offset
  THEN [status |-> "ok", results |-> results, skipped |-> skipped + Len(f.value.a)]
  ELSE [status |-> "ok",
        results |-> results \o SliceFrom(f.value.a, Max(0, offset - skipped)),
        skipped |-> skipped + Max(0, offset - skipped)]

(* ScanStep that counts the whole chunk that crosses offset as skipped *)
ScanStep_SkipsWholeChunk(variant, f, limit, offset, results, skipped) ==
  IF f.status # "ok" THEN Raise("TypeError")
  ELSE IF f.value.t # "array" THEN Raise("TypeError")
  ELSE IF skipped + Len(f.value.a) <= offset
  THEN [status |-> "ok", results |-> results, skipped |-> skipped + Len(f.value.a)]
  ELSE [status |-> "ok",
        results |-> results
                      \o SliceTo(SliceFrom(f.value.a, Max(0, offset - skipped)),
                                 limit - Len(results)),
        skipped |-> skipped + Len(f.value.a)]

(* RemainingToSkip that skips nothing inside the chunk that crosses offset *)
RemainingToSkip_Zero(variant, offset, skipped) == 0

(* const remainingToSkip: the JavaScript engines omit Math.max *)
RemainingToSkip(variant, offset, skipped) ==
  IF variant = "ts" THEN Max(0, offset - skipped) ELSE offset - skipped

(* results.push(...chunkToAdd.slice(0, neededCount)) *)
AddUpToLimit(results, chunkToAdd, limit) ==
  results \o SliceTo(chunkToAdd, Min(Len(chunkToAdd), limit - Len(results)))

(* What the loop does with one chunk that readChunk returned (not null),   *)
(* f being filterData(chunkData, filter).  A parsed value that is not an   *)
(* array has no length and no slice.                                       *)
ScanStep(variant, f, limit, offset, results, skipped) ==
  IF f.status # "ok" THEN Raise("TypeError")
  ELSE IF f.value.t # "array" THEN Raise("TypeError")
  ELSE IF skipped + Len(f.value.a) <= offset
  THEN [status |-> "ok", results |-> results, skipped |-> skipped + Len(f.value.a)]
  ELSE [status |-> "ok",
        results |-> AddUpToLimit(results,
                                 SliceFrom(f.value.a, RemainingToSkip(variant, offset, skipped)),
                                 limit),
        skipped |-> skipped + RemainingToSkip(variant, offset, skipped)]

(* ScanFrom with `break` in place of `continue` on a chunk that is null    *)
RECURSIVE ScanFrom_BreakOnNull(_, _, _, _, _, _, _, _, _, _)
ScanBreak(step, fs, variant, tableName, i, n, filter, limit, offset, reads) ==
  IF step.status # "ok" THEN Raise("TypeError")
  ELSE ScanFrom_BreakOnNull(fs, variant, tableName, i + 1, n, filter, limit, offset,
                            step, Append(reads, i))

ScanFrom_BreakOnNull(fs, variant, tableName, i, n, filter, limit, offset, acc, reads) ==
  IF i >= n \/ Len(acc.results) >= limit
  THEN [status |-> "ok", results |-> acc.results, skipped |-> acc.skipped,
        reads |-> reads]
  ELSE IF ~Truthy(readChunk(fs, tableName, i))
  THEN [status |-> "ok", results |-> acc.results, skipped |-> acc.skipped,
        reads |-> Append(reads, i)]
  ELSE ScanBreak(ScanStep(variant, filterData(variant, readChunk(fs, tableName, i), filter),
                          limit, offset, acc.results, acc.skipped),
                 fs, variant, tableName, i, n, filter, limit, offset, reads)

(* ScanFrom without the `break` once results holds limit records *)
RECURSIVE ScanFrom_NoBreak(_, _, _, _, _, _, _, _, _, _)
ScanOn(step, fs, variant, tableName, i, n, filter, limit, offset, reads) ==
  IF step.status # "ok" THEN Raise("TypeError")
  ELSE ScanFrom_NoBreak(fs, variant, tableName, i + 1, n, filter, limit, offset,
                        step, Append(reads, i))

ScanFrom_NoBreak(fs, variant, tableName, i, n, filter, limit, offset, acc, reads) ==
  IF i >= n
  THEN [status |-> "ok", results |-> acc.results, skipped |-> acc.skipped,
        reads |-> reads]
  ELSE IF ~Truthy(readChunk(fs, tableName, i))
  THEN ScanFrom_NoBreak(fs, variant, tableName, i + 1, n, filter, limit, offset, acc,
                        Append(reads, i))
  ELSE ScanOn(ScanStep(variant, filterData(variant, readChunk(fs, tableName, i), filter),
                       limit, offset, acc.results, acc.skipped),
              fs, variant, tableName, i, n, filter, limit, offset, reads)

(* for (i = 0; i < chunksCount; i++) { if (results.length >= limit) break; *)
(* ... }: reads lists the chunk indexes handed to readChunk                *)
RECURSIVE ScanFrom(_, _, _, _, _, _, _, _, _, _)
(* the rest of the loop after one chunk was processed: a raise ends it *)
ScanNext(step, fs, variant, tableName, i, n, filter, limit, offset, reads) ==
  IF step.status # "ok" THEN Raise("TypeError")
  ELSE ScanFrom(fs, variant, tableName, i + 1, n, filter, limit, offset, step,
                Append(reads, i))

ScanFrom(fs, variant, tableName, i, n, filter, limit, offset, acc, reads) ==
  IF i >= n \/ Len(acc.results) >= limit
  THEN [status |-> "ok", results |-> acc.results, skipped |-> acc.skipped,
        reads |-> reads]
  ELSE IF ~Truthy(readChunk(fs, tableName, i))
  THEN ScanFrom(fs, variant, tableName, i + 1, n, filter, limit, offset, acc,
                Append(reads, i))
  ELSE ScanNext(ScanStep(variant, filterData(variant, readChunk(fs, tableName, i), filter),
                         limit, offset, acc.results, acc.skipped),
                fs, variant, tableName, i, n, filter, limit, offset, reads)

ScanChunks(fs, variant, tableName, n, filter, limit, offset) ==
  ScanFrom(fs, variant, tableName, 0, n, filter, limit, offset,
           [results |-> <<>>, skipped |-> 0], <<>>)

(* the comparator handed to results.sort, json-database.service.ts:245-255 *)
Compare(a, b, sort) ==
  LET fieldA == Get(a, sort.field)
      fieldB == Get(b, sort.field)
      asc == sort.direction = "asc"
  IN  IF fieldA.t \in {"undefined", "null"} THEN (IF asc THEN -1 ELSE 1)
      ELSE IF fieldB.t \in {"undefined", "null"} THEN (IF asc THEN 1 ELSE -1)
      ELSE IF JsLess(fieldA, fieldB) THEN (IF asc THEN -1 ELSE 1)
      ELSE IF JsGreater(fieldA, fieldB) THEN (IF asc THEN 1 ELSE -1)
      ELSE 0

Sign(x) == IF x < 0 THEN -1 ELSE IF x > 0 THEN 1 ELSE 0

(* Array.prototype.sort fixes the result only for a consistent comparator *)
ConsistentOn(s, sort) ==
  /\ \A i, j \in 1..Len(s) : Sign(Compare(s[i], s[j], sort)) = -Sign(Compare(s[j], s[i], sort))
  /\ \A i, j, k \in 1..Len(s) :
       (Compare(s[i], s[j], sort) <= 0 /\ Compare(s[j], s[k], sort) <= 0)
          => Compare(s[i], s[k], sort) <= 0

(* stable insertion into a sorted sequence: after every element not above x *)
RECURSIVE InsertSorted(_, _, _)
InsertSorted(sorted, x, sort) ==
  IF Len(sorted) = 0 THEN <<x>>
  ELSE IF Compare(sorted[Len(sorted)], x, sort) <= 0 THEN Append(sorted, x)
  ELSE Append(InsertSorted(SubSeq(sorted, 1, Len(sorted) - 1), x, sort),
              sorted[Len(sorted)])

RECURSIVE StableSortFrom(_, _, _, _)
StableSortFrom(s, i, sorted, sort) ==
  IF i > Len(s) THEN sorted
  ELSE StableSortFrom(s, i + 1, InsertSorted(sorted, s[i], sort), sort)

StableSort(s, sort) == StableSortFrom(s, 1, <<>>, sort)

Permute(s, p) == [i \in 1..Len(s) |-> s[p[i]]]

Bijections(n) == {p \in [1..n -> 1..n] : \A i, j \in 1..n : p[i] = p[j] => i = j}

(* the orders results.sort may leave: the stable order, or an              *)
(* implementation-defined permutation when the comparator is inconsistent  *)
SortOutcomes(s, sort) ==
  IF sort = Null THEN {s}
  ELSE IF ConsistentOn(s, sort) THEN {StableSort(s, sort)}
  ELSE {Permute(s, p) : p \in Bijections(Len(s))}

(* field selection: only own properties listed in fields *)
Project(item, fields) ==
  IF Len(fields) = 0 THEN item
  ELSE [f \in {fields[i] : i \in 1..Len(fields)} \cap DOMAIN item |-> item[f]]

ProjectAll(s, fields) == [i \in 1..Len(s) |-> Project(s[i], fields)]

(* count += filterData(...).length: a value without length makes it NaN *)
AddLength(cnt, v) ==
  IF v.t # "array" \/ IsNaN(cnt) THEN NaN ELSE Num(cnt.n + Len(v.a))

(* the loop of count; reads lists the chunk indexes handed to readChunk *)
RECURSIVE CountFrom(_, _, _, _, _, _, _)
CountNext(f, fs, tableName, i, n, filter, cnt, reads) ==
  IF f.status # "ok" THEN Raise("TypeError")
  ELSE CountFrom(fs, tableName, i + 1, n, filter, AddLength(cnt, f.value),
                 Append(reads, i))

CountFrom(fs, tableName, i, n, filter, cnt, reads) ==
  IF i >= n THEN [status |-> "ok", total |-> cnt, reads |-> reads]
  ELSE IF ~Truthy(readChunk(fs, tableName, i))
  THEN CountFrom(fs, tableName, i + 1, n, filter, cnt, Append(reads, i))
  ELSE CountNext(filterData("ts", readChunk(fs, tableName, i), filter),
                 fs, tableName, i, n, filter, cnt, reads)

(* count with the metadata shortcut taken whatever the filter is *)
count_ShortcutAnyFilter(fs, tableName, filter) ==
  IF IsNull(getTableMetadata(tableName)) THEN Raise("NotFound")
  ELSE IF Truthy(TotalRowsOf(getTableMetadata(tableName)))
  THEN [status |-> "ok", total |-> TotalRowsOf(getTableMetadata(tableName)),
        reads |-> <<>>]
  ELSE CountFrom(fs, tableName, 0, ChunksCountOf(getTableMetadata(tableName)), filter,
                 Num(0), <<>>)

(* count(tableName, filter): total is a JavaScript number *)
count(fs, tableName, filter) ==
  IF IsNull(getTableMetadata(tableName)) THEN Raise("NotFound")
  ELSE IF Len(filter) = 0 /\ Truthy(TotalRowsOf(getTableMetadata(tableName)))
  THEN [status |-> "ok", total |-> TotalRowsOf(getTableMetadata(tableName)),
        reads |-> <<>>]
  ELSE CountFrom(fs, tableName, 0, ChunksCountOf(getTableMetadata(tableName)), filter,
                 Num(0), <<>>)

(* query(tableName, options): the set of results the call can return.      *)
(* options = [filter, limit, offset, fields, sort]; sort is Null when the  *)
(* caller passed sort: null.                                               *)
(* the sort, the field selection and the returned object, given the scan  *)
(* and the count c = this.count(tableName, filter); reads and countReads   *)
(* list the chunks the scan and the count read during the call             *)
QueryReturn(scan, c, options) ==
  IF scan.status # "ok" THEN {Raise("TypeError")}
  ELSE IF c.status # "ok" THEN {Raise(c.status)}
  ELSE {[status |-> "ok",
         data |-> ProjectAll(sorted, options.fields),
         total |-> c.total,
         offset |-> options.offset,
         limit |-> options.limit,
         reads |-> scan.reads,
         countReads |-> c.reads] : sorted \in SortOutcomes(scan.results, options.sort)}

query(fs, tableName, options) ==
  IF IsNull(getTableMetadata(tableName)) THEN {Raise("NotFound")}
  ELSE QueryReturn(ScanChunks(fs, "ts", tableName,
                              ChunksCountOf(getTableMetadata(tableName)),
                              options.filter, options.limit, options.offset),
                   count(fs, tableName, options.filter), options)

-----------------------------------------------------------------------------
(* Aggregation Engine *)

Completed == <<"C", "o", "m", "p", "l", "e", "t", "e", "d">>
Announced == <<"A", "n", "n", "o", "u", "n", "c", "e", "d">>
Pending == <<"P", "e", "n", "d", "i", "n", "g">>

ZeroStats ==
  [totalDeals |-> 0, totalValue |-> 0, largestDeal |-> 0, sumValues |-> 0,
   valueCount |-> 0, completedDeals |-> 0, announcedDeals |-> 0, pendingDeals |-> 0]

(* the body of chunkData.forEach in getStatistics *)
(* the statistics after one deal whose value and status are given; v is   *)
(* the amount added: the value when it is truthy and a number, else 0      *)
StatsAdd(st, v, counted, status) ==
  [st EXCEPT
     !.totalValue = @ + v,
     !.sumValues = @ + v,
     !.valueCount = IF counted THEN @ + 1 ELSE @,
     !.largestDeal = IF v > @ THEN v ELSE @,
     !.completedDeals = IF status = Str(Completed) THEN @ + 1 ELSE @,
     !.announcedDeals = IF status = Str(Announced) THEN @ + 1 ELSE @,
     !.pendingDeals = IF status = Str(Pending) THEN @ + 1 ELSE @]

StatsValue(st, value, status) ==
  IF Truthy(value) /\ TypeOf(value) = "number"
  THEN StatsAdd(st, value.n, TRUE, status)
  ELSE StatsAdd(st, 0, FALSE, status)

StatsDeal(st, deal) ==
  StatsValue(st,
             JsOr(Get(deal, "transaction_value"), Get(deal, "transactionValue")),
             JsOr(Get(deal, "transaction_status"), Get(deal, "transactionStatus")))

RECURSIVE StatsChunk(_, _, _)
StatsChunk(st, chunk, i) ==
  IF i > Len(chunk) THEN st ELSE StatsChunk(StatsDeal(st, chunk[i]), chunk, i + 1)

(* chunkData.forEach exists on arrays only *)
AddDeals(st, chunk) == StatsChunk([st EXCEPT !.totalDeals = @ + Len(chunk)], chunk, 1)

RECURSIVE StatsFrom(_, _, _, _)
StatsFrom(fs, i, n, st) ==
  IF i >= n THEN Ok(st)
  ELSE IF ~Truthy(readChunk(fs, "deals", i)) THEN StatsFrom(fs, i + 1, n, st)
  ELSE IF readChunk(fs, "deals", i).t # "array" THEN Raise("TypeError")
  ELSE StatsFrom(fs, i + 1, n, AddDeals(st, readChunk(fs, "deals", i).a))

(* getStatistics(): avgDealSize is the quotient sumValues / valueCount,    *)
(* kept as the pair [num, den]                                             *)
StatsReturn(r) ==
  IF r.status # "ok" THEN r
  ELSE Ok([totalDeals |-> r.value.totalDeals,
           totalValue |-> r.value.totalValue,
           avgDealSize |-> IF r.value.valueCount > 0
                           THEN [num |-> r.value.sumValues, den |-> r.value.valueCount]
                           ELSE [num |-> 0, den |-> 1],
           largestDeal |-> r.value.largestDeal,
           completedDeals |-> r.value.completedDeals,
           announcedDeals |-> r.value.announcedDeals,
           pendingDeals |-> r.value.pendingDeals])

getStatistics(fs) ==
  IF IsNull(getTableMetadata("deals")) THEN Raise("NotFound")
  ELSE StatsReturn(StatsFrom(fs, 0, ChunksCountOf(getTableMetadata("deals")), ZeroStats))

-----------------------------------------------------------------------------
(* Record Schema Adapter and the deal-level operations *)

(* the declared fields after id: <<camelCase name, snake_case name>> *)
DealFields ==
  << <<"targetName", "target_name">>,
     <<"announcementDate", "announcement_date">>,
     <<"transactionType", "transaction_type">>,
     <<"transactionStatus", "transaction_status">>,
     <<"transactionValue", "transaction_value">>,
     <<"divestorName", "divestor_name">>,
     <<"acquirerName", "acquirer_name">>,
     <<"targetRegion", "target_region">>,
     <<"targetDescription", "target_description">>,
     <<"evEbitdaMultiple", "ev_ebitda_multiple">>,
     <<"evRevenueMultiple", "ev_revenue_multiple">>,
     <<"acquirerCountry", "acquirer_country">>,
     <<"targetIndustry1", "target_industry_1">>,
     <<"targetIndustry2", "target_industry_2">>,
     <<"dealSummary", "deal_summary">>,
     <<"transactionConsiderations", "transaction_considerations">>,
     <<"targetEnterpriseValue", "target_enterprise_value">>,
     <<"targetRevenue", "target_revenue">>,
     <<"targetEbitda", "target_ebitda">> >>

CamelNames == {DealFields[i][1] : i \in 1..Len(DealFields)}

(* the position of a declared field in DealFields *)
FieldIndex(camel) == CHOOSE i \in 1..Len(DealFields) : DealFields[i][1] = camel

(* transformDealToCamelCase with `snake || null` for every field: a falsy   *)
(* value is replaced by null                                                *)
transformDealToCamelCase_FalsyToNull(deal) ==
  [f \in CamelNames \cup {"id"} |->
     IF f = "id" THEN Get(deal, "id")
     ELSE JsOr(JsOr(Get(deal, DealFields[FieldIndex(f)][2]), Get(deal, f)), Null)]

(* transformDealToCamelCase(deal): every declared field is                 *)
(* deal.<snake_case> || deal.<camelCase>, id is deal.id                     *)
transformDealToCamelCase(deal) ==
  [f \in CamelNames \cup {"id"} |->
     IF f = "id" THEN Get(deal, "id")
     ELSE JsOr(Get(deal, DealFields[FieldIndex(f)][2]), Get(deal, f))]

(* a == b on primitives *)
LooseEq(a, b) ==
  IF a.t \in {"null", "undefined"} \/ b.t \in {"null", "undefined"}
  THEN a.t \in {"null", "undefined"} /\ b.t \in {"null", "undefined"}
  ELSE IF a.t = b.t THEN StrictEq(a, b)
  ELSE StrictEq(ToNumber(a), ToNumber(b))

(* chunkData.find(d => d.id == id): the index of the first match, or 0 *)
FindIndex(chunk, id) ==
  IF \E i \in 1..Len(chunk) : LooseEq(Get(chunk[i], "id"), id)
  THEN CHOOSE i \in 1..Len(chunk) :
         /\ LooseEq(Get(chunk[i], "id"), id)
         /\ \A j \in 1..(i - 1) : ~LooseEq(Get(chunk[j], "id"), id)
  ELSE 0

(* the loop of getDealById; chunkData.find exists on arrays only *)
RECURSIVE FindFrom(_, _, _, _)
FindIn(chunk, k, fs, i, n, id) ==
  IF k > 0 THEN Ok(transformDealToCamelCase(chunk[k])) ELSE FindFrom(fs, i + 1, n, id)

FindFrom(fs, i, n, id) ==
  IF i >= n THEN Raise("NotFound")
  ELSE IF ~Truthy(readChunk(fs, "deals", i)) THEN FindFrom(fs, i + 1, n, id)
  ELSE IF readChunk(fs, "deals", i).t # "array" THEN Raise("TypeError")
  ELSE FindIn(readChunk(fs, "deals", i).a,
              FindIndex(readChunk(fs, "deals", i).a, id), fs, i, n, id)

getDealById(fs, id) ==
  IF IsNull(getTableMetadata("deals")) THEN Raise("NotFound")
  ELSE FindFrom(fs, 0, ChunksCountOf(getTableMetadata("deals")), id)

(* camelToSnakeCase on the sort fields the model uses: `_` and the lower   *)
(* case letter for every upper case letter, digits left as they are        *)
camelToSnakeCase(str) ==
  CASE str = "announcementDate" -> "announcement_date"
    [] str = "transactionValue" -> "transaction_value"
    [] str = "targetIndustry1" -> "target_industry1"
    [] OTHER -> str

(* x && x.length > 0 *)
NonEmptyList(x) ==
  /\ Truthy(x)
  /\ \/ x.t = "array" /\ Len(x.a) > 0
     \/ x.t = "string" /\ Len(x.s) > 0

(* if (list && list.length > 0) filter[field] = list *)
ListClause(field, list) == IF NonEmptyList(list) THEN << <<field, list>> >> ELSE <<>>

(* if (lo) ops.gte = lo; if (hi) ops.lte = hi *)
RangeOps(lo, hi) ==
  (IF Truthy(lo) THEN << <<"gte", lo>> >> ELSE <<>>)
  \o (IF Truthy(hi) THEN << <<"lte", hi>> >> ELSE <<>>)

(* if (lo || hi) { filter[field] = {}; ... } *)
RangeClause(field, lo, hi) ==
  IF Truthy(lo) \/ Truthy(hi) THEN << <<field, Obj(RangeOps(lo, hi))>> >> ELSE <<>>

(* the filter getDeals builds from the UI filters, in insertion order *)
TranslateFilters(filters) ==
  ListClause("transactionType", Get(filters, "transactionTypes"))
  \o RangeClause("announcementDate", Get(filters, "startDate"), Get(filters, "endDate"))
  \o RangeClause("transactionValue", Get(filters, "minSize"), Get(filters, "maxSize"))
  \o ListClause("targetRegion", Get(filters, "regions"))

SearchFields == {"targetName", "acquirerName", "divestorName", "dealSummary"}

(* searchFields.some(field => item[field] && String(item[field])           *)
(*                              .toLowerCase().includes(searchLower))      *)
SearchMatches(item, searchLower) ==
  \E field \in SearchFields :
     /\ Truthy(Get(item, field))
     /\ Includes(ToLowerCase(ToStringJs(Get(item, field))), searchLower)

(* the post-filter of getDeals: applied when searchQuery is not empty *)
SearchFilter(data, searchQuery) ==
  IF Len(searchQuery) = 0 THEN data
  ELSE LET keep(item) == SearchMatches(item, ToLowerCase(searchQuery))
       IN  SelectSeq(data, keep)

(* the options getDeals hands to query *)
DealsQuery(options) ==
  [filter |-> TranslateFilters(options.filters),
   limit |-> options.pageSize,
   offset |-> options.page * options.pageSize,
   fields |-> <<>>,
   sort |-> [field |-> camelToSnakeCase(options.sortField),
             direction |-> options.sortDirection]]

(* getDeals that counts the records left by the search *)
DealsReturn_CountAfterSearch(queryResult, options) ==
  IF queryResult.status # "ok" THEN Raise(queryResult.status)
  ELSE [status |-> "ok",
        deals |-> [i \in 1..Len(SearchFilter(queryResult.data, options.searchQuery)) |->
                     transformDealToCamelCase(
                       SearchFilter(queryResult.data, options.searchQuery)[i])],
        totalCount |-> Num(Len(SearchFilter(queryResult.data, options.searchQuery))),
        queried |-> DealsQuery(options)]

(* what getDeals returns for one result of its query; queried keeps the    *)
(* options that were handed to query                                       *)
DealsReturn(queryResult, options) ==
  IF queryResult.status # "ok" THEN Raise(queryResult.status)
  ELSE [status |-> "ok",
        deals |-> [i \in 1..Len(SearchFilter(queryResult.data, options.searchQuery)) |->
                     transformDealToCamelCase(
                       SearchFilter(queryResult.data, options.searchQuery)[i])],
        totalCount |-> queryResult.total,
        queried |-> DealsQuery(options)]

(* getDeals(options): the set of results the call can return *)
getDeals(fs, options) ==
  {DealsReturn(queryResult, options) : queryResult \in query(fs, "deals", DealsQuery(options))}

(* SetAdd that keeps a value it already holds *)
SetAdd_KeepDuplicates(set, v) == IF ~Truthy(v) THEN set ELSE Append(set, v)

(* Set.prototype.add on the values in insertion order *)
SetAdd(set, v) ==
  IF (~Truthy(v)) \/ (\E i \in 1..Len(set) : set[i] = v) THEN set ELSE Append(set, v)

(* Array.prototype.sort(): ascending code unit order of the string forms,  *)
(* stable                                                                  *)
RECURSIVE InsertDefault(_, _)
InsertDefault(sorted, x) ==
  IF Len(sorted) = 0 THEN <<x>>
  ELSE IF ~StrLess(ToStringJs(x), ToStringJs(sorted[Len(sorted)])) THEN Append(sorted, x)
  ELSE Append(InsertDefault(SubSeq(sorted, 1, Len(sorted) - 1), x), sorted[Len(sorted)])

RECURSIVE DefaultSortFrom(_, _, _)
DefaultSortFrom(s, i, sorted) ==
  IF i > Len(s) THEN sorted ELSE DefaultSortFrom(s, i + 1, InsertDefault(sorted, s[i]))

DefaultSort(s) == DefaultSortFrom(s, 1, <<>>)

(* the values of deal.<snake> || deal.<camel> over the deals from i on *)
RECURSIVE CollectFrom(_, _, _, _, _)
CollectFrom(deals, i, snake, camel, set) ==
  IF i > Len(deals) THEN set
  ELSE CollectFrom(deals, i + 1, snake, camel,
                   SetAdd(set, JsOr(Get(deals[i], snake), Get(deals[i], camel))))

(* industriesSet: industry1 then industry2 of each deal *)
RECURSIVE CollectIndustries(_, _, _)
CollectIndustries(deals, i, set) ==
  IF i > Len(deals) THEN set
  ELSE CollectIndustries(deals, i + 1,
         SetAdd(SetAdd(set, JsOr(Get(deals[i], "target_industry_1"),
                                 Get(deals[i], "targetIndustry1"))),
                JsOr(Get(deals[i], "target_industry_2"), Get(deals[i], "targetIndustry2"))))

FilterOptionsOf(all) ==
  IF all.status # "ok" THEN all
  ELSE Ok([transactionTypes |->
             DefaultSort(CollectFrom(all.value, 1, "transaction_type", "transactionType", <<>>)),
           regions |->
             DefaultSort(CollectFrom(all.value, 1, "target_region", "targetRegion", <<>>)),
           industries |-> DefaultSort(CollectIndustries(all.value, 1, <<>>))])

getFilterOptions(fs) == FilterOptionsOf(getAllData(fs, "deals"))

(* const CHUNK_SIZE = 1000 in getDealsLight *)
CHUNK_SIZE == 1000

(* Math.ceil(a / b) on non-negative integers; Infinity stays Infinity *)
CeilDiv(a, b) == IF a >= Infinity THEN Infinity ELSE (a + b - 1) \div b

(* allData.concat(readChunk(i) || []): an array is spread, any other       *)
(* value is appended as one element                                        *)
RECURSIVE LightFrom(_, _, _, _)
LightFrom(fs, i, n, allData) ==
  IF i >= n THEN allData
  ELSE IF ~Truthy(readChunk(fs, "deals", i)) THEN LightFrom(fs, i + 1, n, allData)
  ELSE IF readChunk(fs, "deals", i).t = "array"
  THEN LightFrom(fs, i + 1, n, allData \o readChunk(fs, "deals", i).a)
  ELSE LightFrom(fs, i + 1, n, Append(allData, readChunk(fs, "deals", i)))

(* the lightweight object built for one deal *)
LightDeal(deal) ==
  [id |-> Get(deal, "id"),
   targetName |-> JsOr(Get(deal, "targetName"), Get(deal, "target_name")),
   transactionValue |-> JsOr(Get(deal, "transactionValue"), Get(deal, "transaction_value")),
   dateAnnounced |-> JsOr(Get(deal, "dateAnnounced"), Get(deal, "date_announced")),
   transactionType |-> JsOr(Get(deal, "transactionType"), Get(deal, "transaction_type")),
   status |-> Get(deal, "status")]

(* LightReturn that slices the collected records at offset itself *)
LightReturn_SliceAtOffset(f, limit, offset, reads) ==
  IF f.status # "ok" THEN Raise("TypeError")
  ELSE [status |-> "ok",
        data |-> Slice([i \in 1..Len(f.value.a) |-> LightDeal(f.value.a[i])], offset, limit),
        total |-> Num(Len(f.value.a)),
        offset |-> offset,
        limit |-> limit,
        reads |-> reads]

(* reads lists the chunk indexes the loop handed to readChunk *)
LightReturn(f, limit, offset, reads) ==
  IF f.status # "ok" THEN Raise("TypeError")
  ELSE [status |-> "ok",
        data |-> Slice(
                   [i \in 1..Len(f.value.a) |-> LightDeal(f.value.a[i])],
                   offset % CHUNK_SIZE, limit),
        total |-> Num(Len(f.value.a)),
        offset |-> offset,
        limit |-> limit,
        reads |-> reads]

(* for (let i = startChunk; i < endChunk; i++) this.readChunk(tableName, i) *)
LightReads(startChunk, endChunk) ==
  [i \in 1..(endChunk - startChunk) |-> startChunk + i - 1]

getDealsLight(fs, options) ==
  IF IsNull(getTableMetadata("deals"))
  THEN [status |-> "ok", data |-> <<>>, total |-> Num(0), offset |-> options.offset,
        limit |-> options.limit, reads |-> <<>>]
  ELSE LightReturn(
         filterData("ts",
                    Arr(LightFrom(fs, options.offset \div CHUNK_SIZE,
                                  Min(CeilDiv(options.offset + options.limit, CHUNK_SIZE),
                                      ChunksCountOf(getTableMetadata("deals"))),
                                  <<>>)),
                    options.filter),
         options.limit, options.offset,
         LightReads(options.offset \div CHUNK_SIZE,
                    Min(CeilDiv(options.offset + options.limit, CHUNK_SIZE),
                        ChunksCountOf(getTableMetadata("deals")))))

(* getTables(): Object.keys(this.metadata) *)
getTables == DOMAIN metadata

-----------------------------------------------------------------------------
(* The inputs the model explores *)

DealA ==
  [id |-> Num(2), transactionType |-> Str(<<"A">>), transactionValue |-> Num(3),
   transactionStatus |-> Str(Completed)]

DealB ==
  [id |-> Num(1), transaction_type |-> Str(<<"B">>), transaction_value |-> Num(1),
   transaction_status |-> Str(Pending)]

Deals == {DealA, DealB}

SeqsUpTo(S, n) == UNION {[1..k -> S] : k \in 0..n}

(* what a chunk file can hold: unparseable text, a JSON object that is not *)
(* an array, or an array of records                                        *)
ChunkFiles ==
  {Corrupt, Json(Obj(<<>>))} \cup {Json(Arr(s)) : s \in SeqsUpTo(Deals, MaxChunkLen)}

Missing == [k |-> "missing"]

TableNames == {"deals", "nonexistent", "constructor"}

NoFilter == <<>>

LargeTypeA ==
  << <<"transactionType", Str(<<"A">>)>>,
     <<"transactionValue", Obj(<< <<"gt", Num(2)>> >>)>> >>

Filters == {NoFilter, LargeTypeA}

Sorts == {Null, [field |-> "id", direction |-> "asc"], [field |-> "id", direction |-> "desc"]}

FieldLists == {<<>>, <<"id">>}

Limits == (0..MaxLimit) \cup {Infinity}

(* every filter, page and sort without projection, and every filter and    *)
(* page projected to the id in scan order                                  *)
QueryOptions ==
  [filter : Filters, limit : Limits, offset : 0..MaxOffset, fields : {<<>>},
   sort : Sorts]
  \cup [filter : Filters, limit : Limits, offset : 0..MaxOffset,
        fields : FieldLists, sort : {Null}]

(* a table that is not loaded is queried with every filter and page *)
PlainOptions ==
  [filter : Filters, limit : Limits, offset : 0..MaxOffset, fields : {<<>>},
   sort : {[field |-> "id", direction |-> "asc"]}]

OptionsFor(tableName) == IF tableName = "deals" THEN QueryOptions ELSE PlainOptions

NoCall == [op |-> "none"]
NoRes == [status |-> "none"]

(* no main process: the engine is used on its own *)
NoMain == [phase |-> "none"]

-----------------------------------------------------------------------------
(* State machine: the engine after construction, one action per operation  *)

(* the records of the array chunks of a directory content, in file order  *)
RECURSIVE Stored(_, _)
Stored(content, i) ==
  IF i \notin DOMAIN content THEN <<>>
  ELSE (IF content[i].k = "json" /\ content[i].v.t = "array" THEN content[i].v.a ELSE <<>>)
       \o Stored(content, i + 1)

(* the conversion step writes every deal once *)
DistinctDeals(content) ==
  LET s == Stored(content, 0)
  IN  \A i, j \in 1..Len(s) : s[i] = s[j] => i = j

(* the data directory holds chunksCount chunk files in one of the two      *)
(* layouts; the descriptor's totalRows need not agree with the files       *)
Init ==
  /\ \E cc \in 0..MaxChunks, tr \in 0..MaxTotalRows, dir \in {"", "deals"} :
       \E content \in [0..(cc - 1) -> ChunkFiles \cup {Missing}] :
          /\ DistinctDeals(content)
          /\ metadata = [t \in {"deals"} |-> [name |-> "deals", chunksCount |-> cc,
                                              totalRows |-> tr]]
          /\ files = [p \in {Path(dir, i) : i \in {j \in 0..(cc - 1) : content[j] # Missing}}
                        |-> content[p.idx]]
  /\ call = NoCall
  /\ res = NoRes
  /\ pc = "idle"
  /\ main = NoMain

Finish(c, r) ==
  /\ call' = c
  /\ res' = r
  /\ pc' = "done"
  /\ UNCHANGED <<metadata, files, main>>

GetTableMetadata ==
  /\ pc = "idle"
  /\ \E t \in TableNames :
     Finish([op |-> "getTableMetadata", table |-> t], Ok(getTableMetadata(t)))

ReadChunk ==
  /\ pc = "idle"
  /\ \E t \in TableNames, i \in 0..MaxChunks :
     Finish([op |-> "readChunk", table |-> t, idx |-> i], Ok(readChunk(files, t, i)))

GetAllData ==
  /\ pc = "idle"
  /\ \E t \in TableNames : Finish([op |-> "getAllData", table |-> t], getAllData(files, t))

Query ==
  /\ pc = "idle"
  /\ \E t \in TableNames :
     \E o \in OptionsFor(t) :
     \E r \in query(files, t, o) :
        Finish([op |-> "query", table |-> t, options |-> o], r)

Count ==
  /\ pc = "idle"
  /\ \E t \in TableNames, f \in Filters :
     Finish([op |-> "count", table |-> t, filter |-> f], count(files, t, f))

GetStatistics ==
  /\ pc = "idle"
  /\ Finish([op |-> "getStatistics"], getStatistics(files))

(* the caller takes the result; the engine is ready for the next call *)
Return ==
  /\ pc = "done"
  /\ call' = NoCall
  /\ res' = NoRes
  /\ pc' = "idle"
  /\ UNCHANGED <<metadata, files, main>>

Next ==
  \/ GetTableMetadata
  \/ ReadChunk
  \/ GetAllData
  \/ Query
  \/ Count
  \/ GetStatistics
  \/ Return

Spec == Init /\ [][Next]_vars

-----------------------------------------------------------------------------
(* The Predicate Evaluator on its own: filterData of either engine applied *)
(* to one record and one filter                                            *)

FilterField == "targetName"

Primitives ==
  {Undefined, Null, Num(1), Num(2), Str(<<"a">>), Str(<<"b">>), Str(<<"A", "b">>),
   Str(<<"1">>)}

(* a record whose field holds v; undefined is the field being absent *)
ItemWith(v) ==
  IF v = Undefined THEN [id |-> Num(1)] ELSE [id |-> Num(1), targetName |-> v]

Operators == {"eq", "ne", "gt", "gte", "lt", "lte", "like", "regex"}

OrderingOps == {"gt", "gte", "lt", "lte"}

ClauseValues ==
  (Primitives \ {Undefined})
  \cup {Arr(<<>>), Arr(<<Num(1)>>), Arr(<<Str(<<"a">>), Null>>)}
  \cup {Obj(<< <<op, val>> >>) : op \in Operators, val \in Primitives \ {Undefined}}
  \cup {Obj(<< <<"gte", Num(1)>>, <<"lte", val>> >>) : val \in {Num(1), Num(2)}}

Variants == {"ts", "js"}

InitFilter ==
  /\ metadata = <<>>
  /\ files = <<>>
  /\ call = NoCall
  /\ res = NoRes
  /\ pc = "idle"
  /\ main = NoMain

FilterData ==
  /\ pc = "idle"
  /\ \E variant \in Variants, v \in Primitives, value \in ClauseValues :
       LET data == Arr(<<ItemWith(v)>>)
           filter == << <<FilterField, value>> >>
       IN  Finish([op |-> "filterData", variant |-> variant, data |-> data,
                   filter |-> filter],
                  filterData(variant, data, filter))

NextFilter ==
  \/ FilterData
  \/ Return

SpecFilter == InitFilter /\ [][NextFilter]_vars

-----------------------------------------------------------------------------
(* The whole service: construction on a data directory, then every public  *)
(* operation, on deals that use all the fields the deal-level operations   *)
(* read                                                                    *)

(* the index under which files holds a descriptor: `<table>/_metadata.json` *)
(* in a table directory, `metadata.json` in the data directory itself       *)
Descriptor == -1

(* { name: 'deals', chunksCount, totalRows: g.totalRows || 0, columns,     *)
(*   ...globalMetadata }                                                    *)
GlobalDeals(g, chunksCount) ==
  [f \in {"name", "chunksCount", "totalRows", "columns"} \cup DOMAIN g |->
     IF f \in DOMAIN g THEN g[f]
     ELSE IF f = "name" THEN "deals"
     ELSE IF f = "chunksCount" THEN chunksCount
     ELSE 0]

(* the files `M&A Database_chunk_*.json` of the data directory *)
FlatChunkFiles(fs) == {p \in DOMAIN fs : p.dir = "" /\ p.idx # Descriptor}

(* a descriptor file that exists and parses *)
Readable(fs, path) == path \in DOMAIN fs /\ fs[path] # Corrupt

(* the second half of loadMetadata: the top-level metadata.json is used    *)
(* when no table descriptor was loaded and it has columns                  *)
LoadGlobal(fs, loaded) ==
  IF /\ DOMAIN loaded = {}
     /\ Readable(fs, Path("", Descriptor))
     /\ "columns" \in DOMAIN fs[Path("", Descriptor)].v
  THEN [t \in {"deals"} |->
          GlobalDeals(fs[Path("", Descriptor)].v, Cardinality(FlatChunkFiles(fs)))]
  ELSE loaded

(* loadMetadata(): nothing is loaded from a directory that does not exist, *)
(* and no failure leaves the method                                        *)
loadMetadata(fs, exists) ==
  IF ~exists THEN <<>>
  ELSE LoadGlobal(fs, [t \in {d \in {"deals"} : Readable(fs, Path(d, Descriptor))} |->
                         fs[Path(t, Descriptor)].v])

ApiDeal1 ==
  [id |-> Num(1), targetName |-> Str(<<"A", "b">>), announcementDate |-> Str(<<"1">>),
   transactionType |-> Str(<<"A">>),
   transactionValue |-> Num(0), transactionStatus |-> Str(Completed),
   targetRegion |-> Str(<<"a">>), targetIndustry1 |-> Str(<<"B">>),
   targetIndustry2 |-> Str(<<"B">>)]

ApiDeal2 ==
  [id |-> Num(2), target_name |-> Str(<<"a", "B">>), transaction_type |-> Str(<<"B">>),
   transaction_value |-> Num(3), transaction_status |-> Str(Pending),
   target_region |-> Str(<<"B">>), target_industry_1 |-> Str(<<"A">>),
   target_industry_2 |-> Str(<<>>)]

ApiDeal3 ==
  [id |-> Num(3), targetName |-> Null, dealSummary |-> Str(<<"b", "A">>),
   transactionType |-> Str(<<"A">>), transactionValue |-> Null,
   targetRegion |-> Null, targetIndustry1 |-> Str(<<"a">>),
   targetIndustry2 |-> Str(<<"B">>)]

ApiDeals == {ApiDeal1, ApiDeal2, ApiDeal3}

(* arrays of distinct deals, or a file that is unparseable or no array *)
ApiChunkFiles ==
  {Corrupt, Json(Obj(<<>>))}
  \cup {Json(Arr(s)) : s \in {q \in SeqsUpTo(ApiDeals, MaxChunkLen) :
                                 \A i, j \in 1..Len(q) : q[i] = q[j] => i = j}}

(* the descriptor the conversion writes next to the chunks *)
TableDescriptor(cc, n) == Json([name |-> "deals", chunksCount |-> cc, totalRows |-> n])

GlobalDescriptor(n) == Json([columns |-> <<"id">>, totalRows |-> n])

(* a data directory: idx Descriptor holds the descriptor, the others the   *)
(* chunk files that exist                                                  *)
Directory(dir, descriptor, content) ==
  [p \in {Path(dir, Descriptor)}
          \cup {Path(dir, i) : i \in {j \in DOMAIN content : content[j] # Missing}} |->
     IF p.idx = Descriptor THEN descriptor ELSE content[p.idx]]

Ids == {Num(1), Str(<<"1">>), Str(<<"2">>), Num(3), Num(4)}

UiFilters ==
  {<<>>,
   [transactionTypes |-> Arr(<<Str(<<"A">>)>>)],
   [transactionTypes |-> Arr(<<>>), regions |-> Arr(<<Str(<<"a">>)>>)],
   [minSize |-> Num(0)],
   [maxSize |-> Num(0)],
   [minSize |-> Num(1), maxSize |-> Num(3)],
   [startDate |-> Str(<<"1">>)],
   [startDate |-> Str(<<>>), endDate |-> Str(<<"2">>)]}

SearchQueries == {<<>>, <<"a">>, <<"A", "B">>}

(* every UI filter on the first page, and every page, sort and search      *)
(* without UI filter                                                       *)
DealsOptions ==
  [page : {0}, pageSize : {MaxLimit}, sortField : {"id"}, sortDirection : {"asc"},
   filters : UiFilters, searchQuery : {<<>>}]
  \cup [page : 0..MaxOffset, pageSize : 1..MaxLimit,
        sortField : {"id", "announcementDate"}, sortDirection : {"asc", "desc"},
        filters : {<<>>}, searchQuery : SearchQueries]

LightOptions == [limit : {1, Infinity}, offset : 0..MaxOffset, filter : Filters]

(* the directory before the service is constructed: a table directory, the *)
(* flat layout, or no file at all                                          *)
InitApi ==
  /\ \E cc \in 0..MaxChunks, dir \in {"", "deals"} :
       \E content \in [0..(cc - 1) -> ApiChunkFiles \cup {Missing}] :
          /\ DistinctDeals(content)
          /\ files \in {<<>>,
                        Directory(dir,
                                  IF dir = "" THEN GlobalDescriptor(Len(Stored(content, 0)))
                                  ELSE TableDescriptor(cc, Len(Stored(content, 0))),
                                  content)}
  /\ metadata = <<>>
  /\ call = NoCall
  /\ res = NoRes
  /\ pc = "new"
  /\ main = NoMain

(* new JSONDatabaseService(dataDirectory): exists is what fs.existsSync    *)
(* answers for the data directory                                          *)
Constructor ==
  /\ pc = "new"
  /\ \E exists \in BOOLEAN :
       /\ DOMAIN files # {} => exists
       /\ metadata' = loadMetadata(files, exists)
       /\ call' = [op |-> "constructor", exists |-> exists]
       /\ res' = Ok(Undefined)
       /\ pc' = "done"
       /\ UNCHANGED <<files, main>>

GetTables ==
  /\ pc = "idle"
  /\ Finish([op |-> "getTables"], Ok(getTables))

GetDealById ==
  /\ pc = "idle"
  /\ \E id \in Ids : Finish([op |-> "getDealById", id |-> id], getDealById(files, id))

GetDeals ==
  /\ pc = "idle"
  /\ \E o \in DealsOptions :
     \E r \in getDeals(files, o) : Finish([op |-> "getDeals", options |-> o], r)

GetFilterOptions ==
  /\ pc = "idle"
  /\ Finish([op |-> "getFilterOptions"], getFilterOptions(files))

GetDealsLight ==
  /\ pc = "idle"
  /\ \E o \in LightOptions :
     Finish([op |-> "getDealsLight", options |-> o], getDealsLight(files, o))

(* Close that empties the metadata mapping *)
Close_ClearsMetadata ==
  /\ pc = "idle"
  /\ metadata' = <<>>
  /\ call' = [op |-> "close"]
  /\ res' = Ok(Undefined)
  /\ pc' = "done"
  /\ UNCHANGED <<files, main>>

(* close(): nothing to release *)
Close ==
  /\ pc = "idle"
  /\ Finish([op |-> "close"], Ok(Undefined))

NextApi ==
  \/ Constructor
  \/ GetTables
  \/ GetTableMetadata
  \/ ReadChunk
  \/ GetAllData
  \/ Query
  \/ Count
  \/ GetDealById
  \/ GetDeals
  \/ GetStatistics
  \/ GetFilterOptions
  \/ GetDealsLight
  \/ Close
  \/ Return

SpecApi == InitApi /\ [][NextApi]_vars

-----------------------------------------------------------------------------
(* The Record Schema Adapter on its own: transformDealToCamelCase applied  *)
(* to one record                                                           *)

FieldValues == {Null, Num(0), Str(<<>>), Num(2), Str(<<"a">>)}

(* the record in canonical form whose fields all hold base, but field f v *)
Canonical(base, f, v) == [g \in CamelNames \cup {"id"} |-> IF g = f THEN v ELSE base]

(* the same values stored under the snake_case names *)
SnakeForm(r) ==
  [g \in {DealFields[i][2] : i \in 1..Len(DealFields)} \cup {"id"} |->
     IF g = "id" THEN r.id
     ELSE r[DealFields[CHOOSE i \in 1..Len(DealFields) : DealFields[i][2] = g][1]]]

(* a record that stores field f under both names: sv under the snake_case *)
(* name, cv under the camelCase name                                       *)
BothForms(f, sv, cv) ==
  [g \in {"id", f, DealFields[FieldIndex(f)][2]} |->
     IF g = "id" THEN Num(1) ELSE IF g = f THEN cv ELSE sv]

AdapterInputs ==
  LET canonical == {Canonical(base, f, v) :
                      base \in FieldValues, f \in CamelNames \cup {"id"}, v \in FieldValues}
  IN  canonical \cup {SnakeForm(r) : r \in canonical}
        \cup {BothForms(f, sv, cv) : f \in CamelNames, sv \in FieldValues, cv \in FieldValues}

TransformDeal ==
  /\ pc = "idle"
  /\ \E deal \in AdapterInputs :
       Finish([op |-> "transformDealToCamelCase", deal |-> deal],
              Ok(transformDealToCamelCase(deal)))

NextAdapter ==
  \/ TransformDeal
  \/ Return

SpecAdapter == InitFilter /\ [][NextAdapter]_vars

-----------------------------------------------------------------------------
(* The sort of the collected page on its own: results.sort with the        *)
(* comparator of query, applied to records whose sort field is absent,     *)
(* null or a number                                                        *)

MaxSortLen == 3

SortField == "key"

SortKeys == {Undefined, Null, Num(1), Num(2)}

(* the i-th collected record, holding v in the sort field (or lacking it) *)
SortItem(i, v) ==
  IF v = Undefined THEN [id |-> Num(i)]
  ELSE [id |-> Num(i), key |-> v]

SortInputs ==
  UNION {{[i \in 1..n |-> SortItem(i, keys[i])] : keys \in [1..n -> SortKeys]} :
           n \in 0..MaxSortLen}

SortResults ==
  /\ pc = "idle"
  /\ \E results \in SortInputs, direction \in {"asc", "desc"} :
       \E sorted \in SortOutcomes(results, [field |-> SortField, direction |-> direction]) :
          Finish([op |-> "sort", results |-> results,
                  sort |-> [field |-> SortField, direction |-> direction]],
                 Ok(sorted))

NextSort ==
  \/ SortResults
  \/ Return

SpecSort == InitFilter /\ [][NextSort]_vars

-----------------------------------------------------------------------------
(* getStatistics on its own: a loaded table of two chunks whose records    *)
(* hold every kind of transaction value and status                         *)

MaxStatsLen == 2

StatsValues == {Undefined, Num(0), Num(2), Num(-1), Str(<<"3">>)}

StatsStatuses ==
  {Undefined, Str(Completed), Str(Announced), Str(Pending), Str(ToLowerCase(Completed))}

(* a deal with the given value and status; Undefined leaves the field out *)
StatsRecord(v, s) ==
  [f \in {"id"} \cup (IF v = Undefined THEN {} ELSE {"transactionValue"})
                \cup (IF s = Undefined THEN {} ELSE {"transactionStatus"}) |->
     IF f = "id" THEN Num(1) ELSE IF f = "transactionValue" THEN v ELSE s]

StatsRecords == {StatsRecord(v, s) : v \in StatsValues, s \in StatsStatuses}

InitStats ==
  /\ \E first \in {Missing, Corrupt, Json(Arr(<<>>)),
                   Json(Arr(<<StatsRecord(Num(2), Str(Announced))>>))},
        second \in SeqsUpTo(StatsRecords, MaxStatsLen) :
       /\ metadata = [t \in {"deals"} |->
                        [name |-> "deals", chunksCount |-> 2, totalRows |-> Len(second)]]
       /\ files = [p \in {Path("deals", i) : i \in (IF first = Missing THEN {1} ELSE {0, 1})}
                     |-> IF p.idx = 0 THEN first ELSE Json(Arr(second))]
  /\ call = NoCall
  /\ res = NoRes
  /\ pc = "idle"
  /\ main = NoMain

NextStats ==
  \/ GetStatistics
  \/ Return

SpecStats == InitStats /\ [][NextStats]_vars

-----------------------------------------------------------------------------
(* The Electron main process (part_001 holds two builds of it): the        *)
(* window, the database service reference and the IPC handlers.  main is   *)
(* [build, platform, phase, mainWindow, dbService, activate]: activate     *)
(* tells whether the 'activate' handler is registered.                     *)

Builds == {"logging", "plain"}

Platforms == {"darwin", "other"}

Channels ==
  {"check-data-loaded", "get-deals", "get-deals-summary", "get-filter-options",
   "get-transaction-types", "get-regions", "get-industries", "get-deal-by-id"}

(* createWindow(): mainWindow = new BrowserWindow(...) *)
createWindow(m) == [m EXCEPT !.mainWindow = "window"]

(* mainWindow.on('closed'): both references are dropped *)
closed(m) == [m EXCEPT !.mainWindow = "null", !.dbService = "null"]

(* app.on('window-all-closed'): quit, except on macOS *)
windowAllClosed(m) == IF m.platform # "darwin" THEN [m EXCEPT !.phase = "quit"] ELSE m

(* the body of app.whenReady().then: outcome "failed" is an exception      *)
(* thrown before the service exists (fs.mkdirSync, fs.readdirSync),        *)
(* "noData" the missing data files that the plain build tests for          *)
whenReady(m, outcome) ==
  IF outcome = "failed"
  THEN [m EXCEPT !.phase = IF m.build = "logging" THEN "quit" ELSE "running"]
  ELSE IF outcome = "noData"
  THEN createWindow([m EXCEPT !.phase = "running"])
  ELSE createWindow([m EXCEPT !.phase = "running", !.dbService = "service",
                              !.activate = TRUE])

(* what an IPC handler answers *)
handle(m, channel) ==
  IF m.dbService = "null"
  THEN (IF channel = "check-data-loaded" THEN Ok("false")
        ELSE Raise("Database not initialized"))
  ELSE [status |-> "ok", by |-> "dbService"]

InitMain ==
  /\ metadata = <<>>
  /\ files = <<>>
  /\ call = NoCall
  /\ res = NoRes
  /\ pc = "idle"
  /\ main \in [build : Builds, platform : Platforms, phase : {"starting"},
               mainWindow : {"null"}, dbService : {"null"}, activate : {FALSE}]

WhenReady ==
  /\ main.phase = "starting"
  /\ \E outcome \in {"failed", "ok"} \cup (IF main.build = "plain" THEN {"noData"} ELSE {}) :
       main' = whenReady(main, outcome)
  /\ UNCHANGED <<metadata, files, call, res, pc>>

(* the user closes the window: 'closed', then 'window-all-closed' *)
CloseWindow ==
  /\ main.phase = "running"
  /\ main.mainWindow = "window"
  /\ main' = windowAllClosed(closed(main))
  /\ UNCHANGED <<metadata, files, call, res, pc>>

(* app.on('activate'), an event of macOS: a window is created when none    *)
(* is open                                                                 *)
Activate ==
  /\ main.phase = "running"
  /\ main.platform = "darwin"
  /\ main.activate
  /\ main' = IF main.mainWindow = "null" THEN createWindow(main) ELSE main
  /\ UNCHANGED <<metadata, files, call, res, pc>>

(* the renderer of the window invokes a channel *)
Invoke ==
  /\ main.phase = "running"
  /\ main.mainWindow = "window"
  /\ \E channel \in Channels :
       /\ call' = [op |-> channel]
       /\ res' = handle(main, channel)
  /\ UNCHANGED <<metadata, files, pc, main>>

NextMain ==
  \/ WhenReady
  \/ CloseWindow
  \/ Activate
  \/ Invoke

SpecMain == InitMain /\ [][NextMain]_vars

-----------------------------------------------------------------------------
(* getDealsLight on chunks of the size the conversion step writes: every   *)
(* chunk but the last holds CHUNK_SIZE records                             *)

MaxLightChunks == 3

(* the record at global position k (from 0) of the table *)
LightRecord(k) ==
  IF k % 2 = 0 THEN [id |-> Num(k), transaction_value |-> Num(k + 1)]
  ELSE [id |-> Num(k), transactionValue |-> Num(k + 1)]

(* chunk i of a table of total records *)
LightChunk(i, total) ==
  Json(Arr([j \in 1..Min(CHUNK_SIZE, total - i * CHUNK_SIZE) |->
              LightRecord(i * CHUNK_SIZE + j - 1)]))

LightPages ==
  [limit : {1, 2, CHUNK_SIZE, CHUNK_SIZE + 1, Infinity},
   offset : {0, 1, CHUNK_SIZE - 1, CHUNK_SIZE, CHUNK_SIZE + 1, 2 * CHUNK_SIZE - 1,
             2 * CHUNK_SIZE, 3 * CHUNK_SIZE},
   filter : {NoFilter}]

(* a table of cc chunks, the last one holding 1, 2 or CHUNK_SIZE records,  *)
(* loaded or (the descriptor being absent) unknown to the service          *)
InitLight ==
  /\ \E cc \in 1..MaxLightChunks, last \in {1, 2, CHUNK_SIZE}, loaded \in BOOLEAN :
       /\ metadata = IF loaded
                     THEN [t \in {"deals"} |->
                             [name |-> "deals", chunksCount |-> cc,
                              totalRows |-> (cc - 1) * CHUNK_SIZE + last]]
                     ELSE <<>>
       /\ files = [p \in {Path("deals", i) : i \in 0..(cc - 1)} |->
                     LightChunk(p.idx, (cc - 1) * CHUNK_SIZE + last)]
  /\ call = NoCall
  /\ res = NoRes
  /\ pc = "idle"
  /\ main = NoMain

GetDealsLightPage ==
  /\ pc = "idle"
  /\ \E o \in LightPages :
       Finish([op |-> "getDealsLight", options |-> o], getDealsLight(files, o))

NextLight ==
  \/ GetDealsLightPage
  \/ Return

SpecLight == InitLight /\ [][NextLight]_vars

-----------------------------------------------------------------------------
(* Properties of the engine *)

Loaded(t) == t \in DOMAIN metadata

QueryDone == pc = "done" /\ call.op = "query"

(* the records of the array chunks 0..chunksCount-1 of a loaded table *)
RECURSIVE StoredFrom(_, _, _, _)
StoredFrom(fs, tableName, i, n) ==
  IF i >= n THEN <<>>
  ELSE LET chunkData == readChunk(fs, tableName, i)
       IN  (IF chunkData.t = "array" THEN chunkData.a ELSE <<>>)
           \o StoredFrom(fs, tableName, i + 1, n)

StoredRecords(tableName) ==
  StoredFrom(files, tableName, 0, ChunksCountOf(metadata[tableName]))

(* the number of records of getAllData(T) that filterData accepts *)
BruteForceCount(tableName, filter) ==
  Len(filterData("ts", Arr(getAllData(files, tableName).value), filter).value.a)

C1Case ==
  /\ QueryDone
  /\ Loaded(call.table)
  /\ call.options.offset = 0
  /\ res.status = "ok"
  /\ getAllData(files, call.table).status = "ok"

(* C1 as stated: for every filter, the empty one included, and whatever    *)
(* the metadata says, total is the brute-force count over getAllData       *)
C1_TotalIsBruteForceCount ==
  C1Case => res.total = Num(BruteForceCount(call.table, call.options.filter))

C1Agrees ==
  \/ Len(call.options.filter) > 0
  \/ metadata[call.table].totalRows = 0
  \/ metadata[call.table].totalRows = Len(StoredRecords(call.table))

(* C1 amended: total is the brute-force count over getAllData for every    *)
(* non-empty filter, and for the empty filter when the metadata totalRows  *)
(* is 0 or is the number of stored records                                 *)
C1_TotalIsBruteForceCountWhenCounted ==
  (C1Case /\ C1Agrees)
     => res.total = Num(BruteForceCount(call.table, call.options.filter))

(* a filtered query whose total is a real count that the metadata does not *)
(* give                                                                    *)
C1_Witness ==
  /\ C1Case
  /\ Len(call.options.filter) > 0
  /\ res.total = Num(1)
  /\ Len(StoredRecords(call.table)) = 2
  /\ metadata[call.table].totalRows = MaxTotalRows

C3Case ==
  /\ QueryDone
  /\ Loaded(call.table)
  /\ call.options.filter = NoFilter
  /\ call.options.offset = 0
  /\ res.status = "ok"

(* C3 as stated: with the empty filter and offset 0, data holds exactly    *)
(* min(limit, metadata totalRows) records                                  *)
C3_PageLengthIsMinOfLimitAndTotalRows ==
  C3Case => Len(res.data) = Min(call.options.limit, metadata[call.table].totalRows)

(* C3 amended: with the empty filter and offset 0, data holds exactly      *)
(* min(limit, n) records, n the number of records stored in the chunks     *)
(* 0..chunksCount-1 of the table                                           *)
C3_PageLengthIsMinOfLimitAndStored ==
  C3Case => Len(res.data) = Min(call.options.limit, Len(StoredRecords(call.table)))

(* a page cut at the limit, from a table whose metadata disagrees with the *)
(* stored records                                                          *)
C3_Witness ==
  /\ C3Case
  /\ call.options.limit = 1
  /\ Len(res.data) = 1
  /\ Len(StoredRecords(call.table)) = 2
  /\ metadata[call.table].totalRows # 2

(* the same query with another page *)
Page(options, offset, limit) == [options EXCEPT !.offset = offset, !.limit = limit]

(* C2: for a fixed table, filter and sort and any page size n, the page at *)
(* offset 0 followed by the page at offset n is the page of size 2n at     *)
(* offset 0                                                                *)
C2_PagesConcatenate ==
  (/\ QueryDone
   /\ Loaded(call.table)
   /\ res.status = "ok"
   /\ call.options.limit \in 1..MaxLimit
   /\ call.options.offset = call.options.limit)
     => \A first \in query(files, call.table, Page(call.options, 0, call.options.limit)),
           both \in query(files, call.table, Page(call.options, 0, 2 * call.options.limit)) :
           (first.status = "ok" /\ both.status = "ok")
              => first.data \o res.data = both.data

(* the file readChunk opens for chunk k of a table, if there is one *)
ChosenPath(fs, tableName, k) ==
  IF tableName = "deals" /\ Path("", k) \in DOMAIN fs THEN Path("", k)
  ELSE Path(tableName, k)

(* chunk k is missing or its file does not parse *)
BadChunk(fs, tableName, k) ==
  \/ ChosenPath(fs, tableName, k) \notin DOMAIN fs
  \/ fs[ChosenPath(fs, tableName, k)] = Corrupt

(* the directory with an empty chunk stored as chunk k *)
WithEmptyChunk(fs, tableName, k) ==
  [p \in DOMAIN fs \cup {ChosenPath(fs, tableName, k)} |->
     IF p = ChosenPath(fs, tableName, k) THEN Json(Arr(<<>>)) ELSE fs[p]]

BadChunksOf(tableName) ==
  {k \in 0..(ChunksCountOf(metadata[tableName]) - 1) : BadChunk(files, tableName, k)}

(* C4: readChunk on a missing or unparseable chunk file returns null       *)
(* without raising, and query, count, getAllData and getStatistics over a  *)
(* table whose chunk k is missing or unparseable return what they return   *)
(* when chunk k is an empty chunk                                          *)
C4_BadChunkIsEmptyChunk ==
  (pc = "done" /\ Loaded("deals"))
     => /\ (call.op = "readChunk" /\ BadChunk(files, call.table, call.idx))
             => res = Ok(Null)
        /\ \A k \in BadChunksOf("deals") :
             LET fs2 == WithEmptyChunk(files, "deals", k)
             IN  /\ (call.op = "query" /\ call.table = "deals")
                      => /\ res \in query(fs2, "deals", call.options)
                         /\ query(fs2, "deals", call.options)
                              = query(files, "deals", call.options)
                 /\ (call.op = "count" /\ call.table = "deals")
                      => res = count(fs2, "deals", call.filter)
                 /\ (call.op = "getAllData" /\ call.table = "deals")
                      => res = getAllData(fs2, "deals")
                 /\ call.op = "getStatistics" => res = getStatistics(fs2)

(* a query that returns the records of chunk 1 although chunk 0 is missing *)
(* or unparseable                                                          *)
C4_Witness ==
  /\ QueryDone
  /\ Loaded("deals")
  /\ call.table = "deals"
  /\ 0 \in BadChunksOf("deals")
  /\ res.status = "ok"
  /\ Len(res.data) = 2
  /\ Len(readChunk(files, "deals", 1).a) = 2

(* C5: query on a table name that is not in the loaded metadata mapping    *)
(* raises NotFound and never returns a result, whatever the options        *)
C5_UnknownTableIsNotFound ==
  (QueryDone /\ ~Loaded(call.table)) => res.status = "NotFound"

(* C6: with a sort, data is the [offset, offset+limit) slice of the whole  *)
(* filtered record set of the table ordered by the sort field and          *)
(* direction                                                               *)
C6_SortThenPaginate ==
  (/\ QueryDone
   /\ Loaded(call.table)
   /\ res.status = "ok"
   /\ call.options.sort # Null
   /\ getAllData(files, call.table).status = "ok")
     => LET all == filterData("ts", Arr(getAllData(files, call.table).value),
                              call.options.filter).value.a
        IN  ConsistentOn(all, call.options.sort)
              => res.data = ProjectAll(Slice(StableSort(all, call.options.sort),
                                             call.options.offset, call.options.limit),
                                       call.options.fields)

ScanOps == {"query", "count", "getStatistics"}

(* C7: for a loaded table and any stored chunk content, a scan returns a   *)
(* result or raises NotFound, and raises nothing else                      *)
C7_OnlyNotFoundIsRaised ==
  (/\ pc = "done"
   /\ call.op \in ScanOps
   /\ Loaded(IF "table" \in DOMAIN call THEN call.table ELSE "deals"))
     => res.status \in {"ok", "NotFound"}

-----------------------------------------------------------------------------
(* Properties of the Predicate Evaluator *)

FilterDone == pc = "done" /\ call.op = "filterData"

ClauseOf == call.filter[1][2]

FieldOf == Get(call.data.a[1], call.filter[1][1])

(* a complex clause with the single operator op *)
SingleOp(ops) == ClauseOf.t = "object" /\ Len(ClauseOf.e) = 1 /\ ClauseOf.e[1][1] \in ops

OperandOf == ClauseOf.e[1][2]

Matched == Len(res.value.a) = 1

(* C8: a membership clause with an empty value set matches every record,   *)
(* in the filterData of every engine                                       *)
C8_EmptyMembershipMatchesAll ==
  (FilterDone /\ ClauseOf = Arr(<<>>)) => res = Ok(call.data)

NumericCompare(op, x, y) ==
  CASE op = "gt" -> x > y
    [] op = "gte" -> x >= y
    [] op = "lt" -> x < y
    [] OTHER -> x <= y

(* C9: an ordering clause is a non-match, and no raise, when the field     *)
(* value or the comparison value is not a number, and the numeric          *)
(* comparison when both are                                                *)
C9_OrderingNeedsNumbers ==
  (FilterDone /\ SingleOp(OrderingOps))
     => /\ res.status = "ok"
        /\ Matched <=> (/\ TypeOf(FieldOf) = "number"
                        /\ TypeOf(OperandOf) = "number"
                        /\ NumericCompare(ClauseOf.e[1][1], FieldOf.n, OperandOf.n))

(* C10: a like clause matches exactly when the field value is a string     *)
(* that contains the stringified comparison value ignoring case, and never *)
(* raises                                                                  *)
C10_LikeIsSubstringIgnoringCase ==
  (FilterDone /\ SingleOp({"like"}))
     => /\ res.status = "ok"
        /\ Matched <=> (/\ TypeOf(FieldOf) = "string"
                        /\ Includes(ToLowerCase(FieldOf.s),
                                    ToLowerCase(ToStringJs(OperandOf))))

-----------------------------------------------------------------------------
(* Properties of the deal-level operations *)

Done(op) == pc = "done" /\ call.op = op

(* the value a record stores for a declared field, in whichever of the two *)
(* naming conventions the record uses                                      *)
FieldValue(r, camel) ==
  IF DealFields[FieldIndex(camel)][2] \in DOMAIN r
  THEN r[DealFields[FieldIndex(camel)][2]]
  ELSE Get(r, camel)

(* the stored transaction values that are present and numeric *)
NumericValues(s) ==
  {i \in 1..Len(s) : TypeOf(FieldValue(s[i], "transactionValue")) = "number"}

RECURSIVE SumValues(_, _)
SumValues(s, I) ==
  IF I = {} THEN 0
  ELSE LET i == CHOOSE k \in I : TRUE
       IN  FieldValue(s[i], "transactionValue").n + SumValues(s, I \ {i})

(* C11: avgDealSize is the sum of the present numeric transaction values   *)
(* divided by their number, and 0 when there is none                       *)
C11_AverageOverNumericValues ==
  (Done("getStatistics") /\ res.status = "ok")
     => LET s == StoredRecords("deals")
            n == Cardinality(NumericValues(s))
        IN  IF n = 0 THEN res.value.avgDealSize.num = 0
            ELSE res.value.avgDealSize.num * n
                   = SumValues(s, NumericValues(s)) * res.value.avgDealSize.den

NonEmpty(v) == v.t \notin {"null", "undefined"} /\ v # Str(<<>>)

(* the distinct non-empty values the stored records hold in given fields *)
Observed(s, fields) ==
  {v \in {FieldValue(s[i], f) : i \in 1..Len(s), f \in fields} : NonEmpty(v)}

(* strictly ascending in code unit order, hence without duplicates *)
SortedNoDup(list) ==
  \A i, j \in 1..Len(list) :
     i < j => StrLess(ToStringJs(list[i]), ToStringJs(list[j]))

Elements(list) == {list[i] : i \in 1..Len(list)}

(* C12: transactionTypes, regions and industries are each sorted, without  *)
(* duplicates, and hold exactly the distinct non-empty values of their     *)
(* field over all chunks, industries those of both industry fields         *)
C12_FilterOptionsSortedDistinct ==
  (Done("getFilterOptions") /\ res.status = "ok")
     => LET s == StoredRecords("deals")
        IN  /\ SortedNoDup(res.value.transactionTypes)
            /\ SortedNoDup(res.value.regions)
            /\ SortedNoDup(res.value.industries)
            /\ Elements(res.value.transactionTypes) = Observed(s, {"transactionType"})
            /\ Elements(res.value.regions) = Observed(s, {"targetRegion"})
            /\ Elements(res.value.industries)
                  = Observed(s, {"targetIndustry1", "targetIndustry2"})

(* the options of a directory in which one record has the same industry in *)
(* both fields and another record repeats it                               *)
C12_Witness ==
  /\ Done("getFilterOptions")
  /\ res.status = "ok"
  /\ Len(StoredRecords("deals")) = 3
  /\ res.value.industries = <<Str(<<"A">>), Str(<<"B">>), Str(<<"a">>)>>
  /\ res.value.regions = <<Str(<<"B">>), Str(<<"a">>)>>

(* the claim's search predicate on a record in either naming convention *)
ContainsQuery(r, searchQuery) ==
  \E field \in SearchFields :
     /\ NonEmpty(FieldValue(r, field))
     /\ Includes(ToLowerCase(ToStringJs(FieldValue(r, field))), ToLowerCase(searchQuery))

(* C13: with a non-empty searchQuery, getDeals keeps a record of the page  *)
(* it fetched exactly when its target name, acquirer name, divestor name   *)
(* or deal summary contains the query ignoring case, whichever naming      *)
(* convention the record is stored in                                      *)
C13_SearchKeepsMatchingRecords ==
  (Done("getDeals") /\ res.status = "ok" /\ Len(call.options.searchQuery) > 0)
     => \E page \in query(files, "deals", res.queried) :
           /\ page.status = "ok"
           /\ LET keep(r) == ContainsQuery(r, call.options.searchQuery)
                  kept == SelectSeq(page.data, keep)
              IN  res.deals = [i \in 1..Len(kept) |-> transformDealToCamelCase(kept[i])]

(* string and number forms of the same id are equal *)
SameId(a, b) == ToStringJs(a) = ToStringJs(b)

(* the positions of the stored records with the requested id *)
WithId(s, id) == {i \in 1..Len(s) : SameId(Get(s[i], "id"), id)}

MinOf(I) == CHOOSE i \in I : \A j \in I : i <= j

(* C14: getDealById returns the normalized form of the first stored record *)
(* with the requested id, in chunk then in-chunk order, and raises         *)
(* NotFound when no stored record has it; every record query('deals')      *)
(* returns is found by its id                                              *)
C14_FirstRecordWithIdOrNotFound ==
  /\ (Done("getDealById") /\ Loaded("deals"))
        => LET s == StoredRecords("deals")
           IN  IF WithId(s, call.id) = {} THEN res.status = "NotFound"
               ELSE res = Ok(transformDealToCamelCase(s[MinOf(WithId(s, call.id))]))
  /\ (QueryDone /\ call.table = "deals" /\ res.status = "ok")
        => \A i \in 1..Len(res.data) :
              /\ getDealById(files, Get(res.data[i], "id")).status = "ok"
              /\ getDealById(files, Get(res.data[i], "id")).value.id
                   = Get(res.data[i], "id")

(* C14 on the directories whose readable chunk files all hold arrays *)
C14_OnArrayChunks ==
  (\A p \in DOMAIN files : p.idx # Descriptor => files[p] # Json(Obj(<<>>)))
     => C14_FirstRecordWithIdOrNotFound

(* C15: constructing the engine on a data directory that does not exist   *)
(* fails, with an initialization error, at construction time               *)
C15_MissingDirectoryFailsConstruction ==
  (Done("constructor") /\ ~call.exists) => res.status = "InitError"

IsCanonical(r) == DOMAIN r = CamelNames \cup {"id"}

(* C16: transformDealToCamelCase of a record in canonical form is the      *)
(* record itself, whatever its field values are, null, 0 and the empty     *)
(* string included                                                         *)
C16_AdapterIdempotent ==
  (Done("transformDealToCamelCase") /\ IsCanonical(call.deal))
     => res = Ok(call.deal)

(* a canonical record full of empty strings with a transaction value of 0  *)
(* comes back as it is                                                     *)
C16_Witness ==
  /\ Done("transformDealToCamelCase")
  /\ IsCanonical(call.deal)
  /\ call.deal.transactionValue = Num(0)
  /\ call.deal.targetName = Str(<<>>)
  /\ res.value.transactionValue = Num(0)
  /\ res.value.targetName = Str(<<>>)

(* a UI filter that is given: not undefined, null or the empty string *)
Given(filters, name) == NonEmpty(Get(filters, name))

(* the operator clause of a range whose ends are given *)
ExpectedRange(filters, field, lo, hi) ==
  IF Given(filters, lo) \/ Given(filters, hi)
  THEN << <<field,
            Obj((IF Given(filters, lo) THEN << <<"gte", filters[lo]>> >> ELSE <<>>)
                \o (IF Given(filters, hi) THEN << <<"lte", filters[hi]>> >> ELSE <<>>))>> >>
  ELSE <<>>

(* the membership clause of a list that is given and not empty *)
ExpectedList(filters, field, name) ==
  IF Given(filters, name) /\ Len(filters[name].a) > 0
  THEN << <<field, filters[name]>> >>
  ELSE <<>>

(* C17: the filter getDeals hands to query has a membership clause for a   *)
(* non-empty transactionTypes or regions list, a gte/lte clause on the     *)
(* announcement date for startDate/endDate and on the transaction value    *)
(* for minSize/maxSize, and no clause for a UI filter that is absent       *)
C17_UiFiltersTranslated ==
  (Done("getDeals") /\ res.status = "ok")
     => res.queried.filter
          = ExpectedList(call.options.filters, "transactionType", "transactionTypes")
            \o ExpectedRange(call.options.filters, "announcementDate", "startDate", "endDate")
            \o ExpectedRange(call.options.filters, "transactionValue", "minSize", "maxSize")
            \o ExpectedList(call.options.filters, "targetRegion", "regions")

(* C18: once the constructor has returned, no operation changes the        *)
(* metadata mapping                                                        *)
C18_MetadataWrittenOnlyAtConstruction ==
  [][pc # "new" => metadata' = metadata]_vars

(* a call on a loaded table after which the mapping is what the            *)
(* constructor loaded from the descriptor                                  *)
C18_Witness ==
  /\ Done("getDealsLight")
  /\ Loaded("deals")
  /\ Len(res.data) = 1
  /\ metadata = loadMetadata(files, TRUE)

(* C19: the records the scan of query collects, in either engine, are the  *)
(* [offset, offset+limit) slice of the filtered concatenation of the       *)
(* chunks in index order; they are data when there is no sort and no field *)
(* selection                                                               *)
C19_ScanIsSliceOfFilteredConcatenation ==
  (QueryDone /\ Loaded(call.table) /\ res.status = "ok")
     => /\ \A variant \in Variants :
             LET scan == ScanChunks(files, variant, call.table,
                                    ChunksCountOf(metadata[call.table]),
                                    call.options.filter, call.options.limit,
                                    call.options.offset)
                 all == filterData(variant, Arr(StoredRecords(call.table)),
                                   call.options.filter)
             IN  /\ scan.status = "ok"
                 /\ scan.results
                      = Slice(all.value.a, call.options.offset, call.options.limit)
        /\ (call.options.sort = Null /\ call.options.fields = <<>>)
             => res.data
                  = Slice(filterData("ts", Arr(StoredRecords(call.table)),
                                     call.options.filter).value.a,
                          call.options.offset, call.options.limit)

(* a page that starts inside chunk 0, after its first record, and is      *)
(* full before chunk 1 is read                                             *)
C19_Witness ==
  /\ QueryDone
  /\ Loaded(call.table)
  /\ res.status = "ok"
  /\ call.options.sort = Null
  /\ call.options.fields = <<>>
  /\ call.options.offset = 1
  /\ call.options.limit = 1
  /\ ChunksCountOf(metadata[call.table]) = 2
  /\ res.reads = <<0>>
  /\ res.data = <<StoredRecords(call.table)[2]>>

(* the number of records of the chunks 0..k that the filter accepts *)
MatchedUpTo(tableName, filter, k) ==
  Len(filterData("ts", Arr(StoredFrom(files, tableName, 0, k + 1)), filter).value.a)

(* the chunks whose records complete offset+limit accepted records *)
Completing(tableName, options) ==
  {k \in 0..(ChunksCountOf(metadata[tableName]) - 1) :
     MatchedUpTo(tableName, options.filter, k) >= options.offset + options.limit}

(* C20: a query call reads no chunk with an index beyond the chunk that    *)
(* completes offset+limit accepted records                                 *)
C20_NoReadBeyondNeededChunk ==
  (QueryDone /\ Loaded(call.table) /\ res.status = "ok")
     => \A k \in Completing(call.table, call.options) :
           \A i \in 1..Len(res.reads \o res.countReads) :
              (res.reads \o res.countReads)[i] <= k

(* C20 amended: the loop that collects the page reads no chunk beyond the  *)
(* one that completes offset+limit accepted records; the count of total    *)
(* then reads no chunk when the filter is empty and the metadata totalRows *)
(* is not 0, and every chunk 0..chunksCount-1 otherwise                    *)
C20_ScanStopsAtNeededChunk ==
  (QueryDone /\ Loaded(call.table) /\ res.status = "ok")
     => /\ \A k \in Completing(call.table, call.options) :
             \A i \in 1..Len(res.reads) : res.reads[i] <= k
        /\ res.countReads
             = IF call.options.filter = NoFilter /\ metadata[call.table].totalRows # 0
               THEN <<>>
               ELSE [i \in 1..ChunksCountOf(metadata[call.table]) |-> i - 1]

(* a filtered query whose page is full after chunk 0: the loop stops       *)
(* there, the count reads both chunks                                      *)
C20_Witness ==
  /\ QueryDone
  /\ Loaded(call.table)
  /\ res.status = "ok"
  /\ call.options.filter = LargeTypeA
  /\ call.options.limit = 1
  /\ Len(res.data) = 1
  /\ res.reads = <<0>>
  /\ res.countReads = <<0, 1>>
  /\ readChunk(files, call.table, 1) = Arr(<<DealB>>)


-----------------------------------------------------------------------------
(* Properties of the remaining operations *)

NullKey(r, sort) == Get(r, sort.field).t \in {"undefined", "null"}

(* a has to precede b: a null key against a present one (first ascending,  *)
(* last descending), or the smaller (ascending) or larger (descending) of  *)
(* two present keys                                                        *)
Ahead(a, b, sort) ==
  IF sort.direction = "asc"
  THEN \/ NullKey(a, sort) /\ ~NullKey(b, sort)
       \/ /\ ~NullKey(a, sort) /\ ~NullKey(b, sort)
          /\ JsLess(Get(a, sort.field), Get(b, sort.field))
  ELSE \/ ~NullKey(a, sort) /\ NullKey(b, sort)
       \/ /\ ~NullKey(a, sort) /\ ~NullKey(b, sort)
          /\ JsGreater(Get(a, sort.field), Get(b, sort.field))

(* C21: the sort puts the records with a null or absent sort field first   *)
(* under asc and last under desc, orders the others by less-than, and      *)
(* keeps records with equal keys, several null keys included, in their     *)
(* original relative order                                                 *)
C21_SortStableNullsAtEdge ==
  Done("sort") =>
    \E p \in Bijections(Len(call.results)) :
       /\ res.value = Permute(call.results, p)
       /\ \A i, j \in 1..Len(call.results) :
            i < j => /\ ~Ahead(res.value[j], res.value[i], call.sort)
                     /\ (~Ahead(res.value[i], res.value[j], call.sort) => p[i] < p[j])


(* the filter of a completed query or count call *)
FilterOfCall == IF call.op = "query" THEN call.options.filter ELSE call.filter

(* C22: for the empty filter, the total of query and the result of count   *)
(* are the metadata totalRows, whatever its value (0 included) and         *)
(* whatever the chunks hold                                                *)
C22_EmptyFilterTotalIsTotalRows ==
  (/\ pc = "done"
   /\ call.op \in {"query", "count"}
   /\ Loaded(call.table)
   /\ FilterOfCall = NoFilter
   /\ res.status = "ok")
     => res.total = Num(metadata[call.table].totalRows)


(* the number of stored records of deals that the translated filter of the *)
(* call accepts                                                            *)
FilterCount(filters) ==
  filterData("ts", Arr(StoredRecords("deals")), TranslateFilters(filters))

(* the completed getDeals call with another search text *)
WithSearch(q) == getDeals(files, [call.options EXCEPT !.searchQuery = q])

(* C23: totalCount is the number of records of the table that match the    *)
(* translated filter only, the same for every search text                  *)
C23_TotalCountIgnoresSearch ==
  (Done("getDeals") /\ res.status = "ok")
     => /\ FilterCount(call.options.filters).status = "ok"
        /\ res.totalCount = Num(Len(FilterCount(call.options.filters).value.a))
        /\ \A q \in SearchQueries : \A r \in WithSearch(q) :
             r.status = "ok" /\ r.totalCount = res.totalCount


(* C23 amended: totalCount is the total of the query for the translated    *)
(* filter, that is count('deals', filter): the number of stored records    *)
(* the filter accepts when the filter is not empty or the metadata         *)
(* totalRows is 0 or the number of stored records, the metadata totalRows  *)
(* otherwise; it is the same for every search text                         *)
C23_TotalCountIsFilterTotal ==
  (Done("getDeals") /\ res.status = "ok")
     => /\ count(files, "deals", TranslateFilters(call.options.filters)).status = "ok"
        /\ res.totalCount
             = count(files, "deals", TranslateFilters(call.options.filters)).total
        /\ res.totalCount
             = IF \/ Len(TranslateFilters(call.options.filters)) > 0
                  \/ metadata.deals.totalRows \in {0, Len(StoredRecords("deals"))}
               THEN Num(Len(FilterCount(call.options.filters).value.a))
               ELSE Num(metadata.deals.totalRows)
        /\ \A q \in SearchQueries : \A r \in WithSearch(q) :
             r.status = "ok" /\ r.totalCount = res.totalCount

(* a search that drops one of the two records of the page, which           *)
(* totalCount still counts                                                 *)
C23_Witness ==
  /\ Done("getDeals")
  /\ res.status = "ok"
  /\ call.options.searchQuery = <<"a">>
  /\ call.options.pageSize = 2
  /\ call.options.page = 0
  /\ Len(res.deals) = 1
  /\ res.totalCount = Num(2)


(* C24: for a field the input stores under both names, the output holds    *)
(* the value stored under the snake_case name, whatever it is (0, the      *)
(* empty string and null included), and the output always has every        *)
(* declared field as a key                                                 *)
C24_SnakeCaseValueWins ==
  Done("transformDealToCamelCase")
    => /\ DOMAIN res.value = CamelNames \cup {"id"}
       /\ \A f \in CamelNames :
            (f \in DOMAIN call.deal /\ DealFields[FieldIndex(f)][2] \in DOMAIN call.deal)
               => res.value[f] = call.deal[DealFields[FieldIndex(f)][2]]


(* the largest of the values of s at the indexes I, 0 when there is none *)
MaxValue(s, I) ==
  IF I = {} THEN 0
  ELSE LET values == {FieldValue(s[i], "transactionValue").n : i \in I}
       IN  CHOOSE m \in values : \A v \in values : v <= m

(* the number of records of s whose status is exactly the given one *)
WithStatus(s, status) ==
  Cardinality({i \in 1..Len(s) : FieldValue(s[i], "transactionStatus") = Str(status)})

StatsAsClaimed(s) ==
  /\ res.value.totalValue = SumValues(s, NumericValues(s))
  /\ res.value.largestDeal = MaxValue(s, NumericValues(s))
  /\ res.value.totalDeals = Len(s)
  /\ res.value.completedDeals = WithStatus(s, Completed)
  /\ res.value.announcedDeals = WithStatus(s, Announced)
  /\ res.value.pendingDeals = WithStatus(s, Pending)

(* C25: totalValue is the sum and largestDeal the maximum of the present   *)
(* numeric transaction values (0 when there is none), totalDeals the       *)
(* number of records of the readable chunks, completedDeals,               *)
(* announcedDeals and pendingDeals the numbers of records whose status is  *)
(* exactly Completed, Announced, Pending                                   *)
C25_StatisticsAreSumMaxAndCounts ==
  (Done("getStatistics") /\ res.status = "ok") => StatsAsClaimed(StoredRecords("deals"))

(* C25 on tables without a negative transaction value *)
C25_OnNonNegativeValues ==
  (/\ Done("getStatistics")
   /\ res.status = "ok"
   /\ \A i \in NumericValues(StoredRecords("deals")) :
        FieldValue(StoredRecords("deals")[i], "transactionValue").n >= 0)
    => StatsAsClaimed(StoredRecords("deals"))


(* the state of the loop of query after it went through the first k chunks *)
ScanAfter(variant, k) ==
  ScanChunks(files, variant, call.table, k, call.options.filter,
             call.options.limit, call.options.offset)

(* the records of the first k chunks that the filter of the call accepts *)
MatchedIn(variant, k) ==
  filterData(variant, Arr(StoredFrom(files, call.table, 0, k)), call.options.filter)

(* C26: in both engines, after any number of chunks, 0 <= skipped <=       *)
(* offset, results.length <= limit, skipped + results.length is at most    *)
(* the number of matching records of the chunks processed so far, and the  *)
(* slice start index computed for the next chunk is not negative           *)
C26_ScanLoopInvariant ==
  (QueryDone /\ Loaded(call.table) /\ res.status = "ok")
     => \A variant \in Variants : \A k \in 0..ChunksCountOf(metadata[call.table]) :
           /\ ScanAfter(variant, k).status = "ok"
           /\ 0 <= ScanAfter(variant, k).skipped
           /\ ScanAfter(variant, k).skipped <= call.options.offset
           /\ Len(ScanAfter(variant, k).results) <= call.options.limit
           /\ ScanAfter(variant, k).skipped + Len(ScanAfter(variant, k).results)
                <= Len(MatchedIn(variant, k).value.a)
           /\ RemainingToSkip(variant, call.options.offset, ScanAfter(variant, k).skipped)
                >= 0

(* a page that starts inside chunk 0 and is full at its end: the loop has  *)
(* skipped offset records and collected limit records, all the records of  *)
(* the chunk                                                               *)
C26_Witness ==
  /\ QueryDone
  /\ Loaded(call.table)
  /\ res.status = "ok"
  /\ call.options.filter = NoFilter
  /\ call.options.offset = 1
  /\ call.options.limit = 1
  /\ ChunksCountOf(metadata[call.table]) = 2
  /\ ScanAfter("js", 1).skipped = 1
  /\ Len(ScanAfter("js", 1).results) = 1
  /\ Len(MatchedIn("js", 1).value.a) = 2


(* C27: every result of query has data.length <= limit and data.length <=  *)
(* total, whatever the filter, offset, limit, chunks and metadata are      *)
C27_PageWithinLimitAndTotal ==
  (QueryDone /\ res.status = "ok")
     => /\ Len(res.data) <= call.options.limit
        /\ JsLessEq(Num(Len(res.data)), res.total)

(* C27 for the queries of a loaded table whose total was counted (a filter *)
(* that is not empty, or a metadata totalRows of 0) in chunks that are     *)
(* arrays                                                                  *)
C27_WhenCounted ==
  (/\ QueryDone
   /\ res.status = "ok"
   /\ Loaded(call.table)
   /\ (call.options.filter # NoFilter \/ metadata[call.table].totalRows = 0)
   /\ getAllData(files, call.table).status = "ok")
     => /\ Len(res.data) <= call.options.limit
        /\ JsLessEq(Num(Len(res.data)), res.total)


(* the call filters on a date bound given as a string *)
DateBound(name) ==
  /\ TypeOf(Get(call.options.filters, name)) = "string"
  /\ Truthy(Get(call.options.filters, name))

C29_WindowHasDatabase ==
  /\ (main.phase = "running" /\ main.mainWindow = "window") => main.dbService # "null"
  /\ call.op \in {"get-deals", "get-deals-summary", "get-deal-by-id"}
       => res # Raise("Database not initialized")


(* every chunk of deals but the last holds exactly CHUNK_SIZE records *)
FullChunks ==
  \A i \in 0..(ChunksCountOf(metadata.deals) - 2) :
     /\ readChunk(files, "deals", i).t = "array"
     /\ Len(readChunk(files, "deals", i).a) = CHUNK_SIZE

(* C30: with an empty filter, on a table whose chunks but the last hold    *)
(* exactly 1000 records, getDealsLight returns the (lightweight) records   *)
(* at the global positions [offset, offset+limit) of the concatenation of  *)
(* all chunks, fewer when the table ends earlier, and reads only the       *)
(* chunks floor(offset/1000) .. ceil((offset+limit)/1000)-1; on an unknown *)
(* table it returns an empty result                                        *)
C30_LightPageIsGlobalSlice ==
  (Done("getDealsLight") /\ call.options.filter = NoFilter)
     => IF ~Loaded("deals")
        THEN /\ res.status = "ok"
             /\ res.data = <<>>
             /\ res.total = Num(0)
        ELSE (FullChunks /\ getAllData(files, "deals").status = "ok")
               => /\ res.status = "ok"
                  /\ res.data
                       = [i \in 1..Len(Slice(StoredRecords("deals"), call.options.offset,
                                             call.options.limit)) |->
                            LightDeal(Slice(StoredRecords("deals"), call.options.offset,
                                            call.options.limit)[i])]
                  /\ \A i \in 1..Len(res.reads) :
                       /\ res.reads[i] >= call.options.offset \div CHUNK_SIZE
                       /\ res.reads[i]
                            < CeilDiv(call.options.offset + call.options.limit, CHUNK_SIZE)

(* a page of two records that starts at the last record of chunk 0 and    *)
(* ends at the first record of chunk 1                                     *)
C30_Witness ==
  /\ Done("getDealsLight")
  /\ Loaded("deals")
  /\ call.options.filter = NoFilter
  /\ call.options.offset = CHUNK_SIZE - 1
  /\ call.options.limit = 2
  /\ res.status = "ok"
  /\ res.reads = <<0, 1>>
  /\ Len(res.data) = 2
  /\ res.data[1].id = Num(CHUNK_SIZE - 1)
  /\ res.data[2].id = Num(CHUNK_SIZE)
  /\ res.data[2].transactionValue = Num(CHUNK_SIZE + 1)

====
